---- MODULE Spec2Model ----
(***************************************************************************)
(* Smart-IoT: device discovery, vendor classification and the client-side  *)
(* device cache.                                                            *)
(*                                                                          *)
(*   DeviceCacheService   src/unnamed/part_002  (lines 626-802)             *)
(*   backend scan server  src/README.md         (lines 142-811)             *)
(*   client service       src/src/services/localDeviceService.ts            *)
(*                                                                          *)
(* Each subsystem has its own specification (SpecCache, SpecBackend,        *)
(* SpecClassify); the variables of the other subsystems keep their initial  *)
(* values under it.                                                         *)
(***************************************************************************)
EXTENDS Integers, Sequences, FiniteSets, TLC

VARIABLES
    \* ---- DeviceCacheService (client singleton) ----
    deviceCache,        \* Map<string, CachedDevice>, in insertion order
    lastScanTimestamp,  \* private lastScanTimestamp
    storage,            \* localStorage items deviceCache / lastScanTimestamp
    now,                \* Date.now(), in ms
    tick,               \* position of the clock in ClockSchedule
    cacheCall,          \* the cache method called last, its arguments and result
    putAt,              \* history: time of the last cacheDevices since the last clearCache, -1 if none
    sinceClear,         \* history: "cleared" after clearCache, "single" once cacheDevice was called
                        \* after it, "none" before any clearCache and after cacheDevices
    \* ---- backend discoverDevices() (one scan pass) ----
    bpc,                \* position: "idle", "mdns", "netinfo", "scan", "done"
    mdnsDevices,        \* discoverWithMdns: const devices
    announced,          \* number of 'up' events delivered in the 3 s window
    bDevices,           \* discoverDevices: const devices
    networkInfo,        \* discoverDevices: const networkInfo
    ipRange,            \* discoverDevices: const ipRange
    scanI,              \* loop variable i (a long)
    scanPromises,       \* discoverDevices: const scanPromises (the values they settle to)
    bOutcome,           \* "pending", "returned" or "raised", and the returned list
    walked,             \* history: number of loop iterations so far
    pinged,             \* history: the addresses handed to pingIp by the loop
    scanned,            \* history: the addresses handed to scanIp
    pingFailed,         \* history: the addresses whose ping gave no TTL or failed
    bFailed,            \* history: the stages that failed in this pass
    \* ---- scanIp / scanIpFallback for one address ----
    cpc,                \* position: "idle", "probing", "done"
    cSide,              \* "backend" (scanIp) or "client" (scanIpFallback)
    cIp,                \* the argument ipAddress
    cPos,               \* index of the next detect call in the function body
    cLog,               \* history: the probes issued, in order
    cResponses,         \* history: what each issued probe came back with
    cResult,            \* the value returned
    \* ---- client discoverDevices() (one call) ----
    dpc,                \* position: "idle", "request", "fallback", "done"
    dRetries,           \* retryOperation: retries
    dCached,            \* const cachedDevices of the fallback branch
    dResult,            \* "pending", "returned" or "raised", and the returned list
    dRequests,          \* history: GET /scan-network requests issued by this call
    dProbed,            \* history: the browser-compatible discovery ran in this call
    dBefore,            \* history: the non-expired cached devices when the call began
    dNew,               \* history: the devices this call's scan produced
    dFailed,            \* history: the stages of this call that threw
    \* ---- client toggleDevice / updateDeviceState (one call) ----
    kpc,                \* position: "idle" (not yet called), "backend", "direct", "done"
    kReq,               \* the function called, its device, the action and params it sends
    kRetries,           \* retryOperation: retries
    kProps,             \* the entries of params the direct loop has still to set
    kSuccess,           \* let success of the direct loop
    kCalls,             \* history: the backend calls, handler calls and delays, in order
    kFailed,            \* history: the stages of this call that threw
    kResult,            \* "pending", "resolved" or "raised", and the resolved value
    \* ---- getState of a protocol handler ----
    hState,             \* the last getState call: protocol, reply and result
    \* ---- backend POST /api/device/control ----
    rCall,              \* the last request served: body, status, json and the commands sent
    \* ---- setProperty of a protocol handler ----
    pCall,              \* the last setProperty call: handler, property, value, payload, result
    \* ---- retryOperation (one call) ----
    retry,              \* position, retries, delay, the invocations so far, the outcome
    \* ---- LocalDevicesTab ----
    tab                 \* the mounted instance's state and the discoverDevices calls pending

cacheVars == <<deviceCache, lastScanTimestamp, storage, now, tick, cacheCall, putAt,
               sinceClear>>

backendVars == <<bpc, mdnsDevices, announced, bDevices, networkInfo, ipRange, scanI,
                 scanPromises, bOutcome, walked, pinged, scanned, pingFailed, bFailed>>

classifyVars == <<cpc, cSide, cIp, cPos, cLog, cResponses, cResult>>

discoverVars == <<dpc, dRetries, dCached, dResult, dRequests, dProbed, dBefore, dNew, dFailed>>

controlVars == <<kpc, kReq, kRetries, kProps, kSuccess, kCalls, kFailed, kResult, hState,
                 rCall, pCall, retry, tab>>

vars == <<cacheVars, backendVars, classifyVars, discoverVars, controlVars>>

(***************************************************************************)
(* Generic helpers                                                          *)
(***************************************************************************)
None == "none"

Range(s) == {s[i] : i \in 1..Len(s)}

\* JavaScript object spread {...a, ...b}: the fields of b override those of a.
Spread(a, b) ==
    [f \in (DOMAIN a) \cup (DOMAIN b) |-> IF f \in DOMAIN b THEN b[f] ELSE a[f]]

\* array.filter(pred) for a predicate given as the set of kept indices
SelectIdx(s, keep) ==
    LET F[i \in 0..Len(s)] ==
            IF i = 0 THEN << >>
            ELSE IF i \in keep THEN Append(F[i - 1], s[i]) ELSE F[i - 1]
    IN  F[Len(s)]

(***************************************************************************)
(* Time                                                                     *)
(***************************************************************************)
MinuteMs == 60 * 1000

\* Date.now() at the start of the session. Any realistic epoch time is far
\* beyond both cache windows; the value is kept inside TLC's integers.
StartTime == 1000000000

\* Offsets (minutes after StartTime) at which the clock is observed. They put
\* every pair of instants the two windows distinguish at hand: differences of
\* 1, 2, 4 (< 5 min), 5 (= 5 min), 6 (> 5 min), 60 (= 1 h), 61, 62, 66 (> 1 h).
ClockSchedule == <<0, 4, 5, 6, 66>>

\* Cache expiry time in milliseconds (1 hour)
CACHE_EXPIRY == 60 * 60 * 1000

\* default argument of hasRecentScan, and the window discoverDevices passes
RECENT_SCAN_MS == 5 * 60 * 1000

MaxAgeInputs == {RECENT_SCAN_MS, MinuteMs}

(***************************************************************************)
(* LocalDevice records held by the cache                                   *)
(***************************************************************************)
\* An IPv4 address a.b.c.d is the tuple <<a, b, c, d>>; the id
\* `${prefix}-${ip.replace(/\./g, '-')}` is the pair <<prefix, ip>>.
MkId(prefix, ipAddress) == <<prefix, ipAddress>>

DevWiz   == [id |-> MkId("wiz", <<192, 168, 1, 15>>), ip |-> <<192, 168, 1, 15>>,
             state |-> FALSE, value |-> 100]
DevWizOn == [id |-> MkId("wiz", <<192, 168, 1, 15>>), ip |-> <<192, 168, 1, 15>>,
             state |-> TRUE, value |-> 100]
DevFan   == [id |-> MkId("tasmota", <<192, 168, 1, 20>>), ip |-> <<192, 168, 1, 20>>,
             state |-> FALSE, value |-> 3]

DeviceIds == {DevWiz.id, DevFan.id}

\* the lists handed to cacheDevices
CacheInputs == { << >>, <<DevWiz>>, <<DevWiz, DevFan>>, <<DevWizOn>> }

\* the Partial<LocalDevice> values handed to updateDeviceState
UpdateInputs == { [state |-> TRUE], [value |-> 50] }

NoCall == [op |-> "none"]

(***************************************************************************)
(* Map<string, CachedDevice> as a sequence of [key, val] in insertion order *)
(***************************************************************************)
MapHas(m, k) == \E i \in 1..Len(m) : m[i].key = k

MapGet(m, k) == LET i == CHOOSE j \in 1..Len(m) : m[j].key = k IN m[i].val

\* Map.set: an existing key keeps its position, a new key is appended
MapSet(m, k, v) ==
    IF MapHas(m, k)
    THEN [i \in 1..Len(m) |-> IF m[i].key = k THEN [key |-> k, val |-> v] ELSE m[i]]
    ELSE Append(m, [key |-> k, val |-> v])

MapDelete(m, k) == SelectIdx(m, {i \in 1..Len(m) : m[i].key # k})

(***************************************************************************)
(* DeviceCacheService                                                       *)
(***************************************************************************)
\* isExpired with the retention window closed at its end (>= for >)
isExpired_AtWindow(timestamp, t) == t - timestamp >= CACHE_EXPIRY

\* private isExpired(timestamp)
isExpired(timestamp, t) == t - timestamp > CACHE_EXPIRY

\* private stripCacheMetadata(cachedDevice)
stripCacheMetadata(cachedDevice) ==
    [f \in (DOMAIN cachedDevice) \ {"cachedAt"} |-> cachedDevice[f]]

\* cacheDevice that inserts but never replaces
cacheDeviceIn_InsertOnly(m, device, t) ==
    IF MapHas(m, device.id) THEN m
    ELSE Append(m, [key |-> device.id, val |-> Spread(device, [cachedAt |-> t])])

\* cacheDevice(device) applied to a map value
cacheDeviceIn(m, device, t) ==
    MapSet(m, device.id, Spread(device, [cachedAt |-> t]))

\* devices.forEach(device => this.cacheDevice(device))
cacheEach(m, devices, t) ==
    LET F[i \in 0..Len(devices)] ==
            IF i = 0 THEN m ELSE cacheDeviceIn(F[i - 1], devices[i], t)
    IN  F[Len(devices)]

\* private saveToStorage(): the two localStorage items
savedItems(m, ts) ==
    [has |-> TRUE, deviceCache |-> [i \in 1..Len(m) |-> m[i].val], lastScanTimestamp |-> ts]

\* localStorage without the two items (never written, or removed by clearCache)
NoItems == [has |-> FALSE, deviceCache |-> << >>, lastScanTimestamp |-> 0]

\* cacheDevices without the write of lastScanTimestamp
scanStamp_Kept(old, t) == old

\* the timestamp cacheDevices leaves in lastScanTimestamp
scanStamp(old, t) == t

\* the devices getAllDevices pushes: the entries that are not expired
liveDevices(m, t) ==
    LET keep == {i \in 1..Len(m) : ~isExpired(m[i].val.cachedAt, t)}
        kept == SelectIdx(m, keep)
    IN  [i \in 1..Len(kept) |-> stripCacheMetadata(kept[i].val)]

\* the map getAllDevices leaves: expired entries deleted
evictExpired(m, t) ==
    SelectIdx(m, {i \in 1..Len(m) : ~isExpired(m[i].val.cachedAt, t)})

\* hasRecentScan with the comparison turned round
recentScan_Older(ts, t, maxAgeMs) == t - ts > maxAgeMs

\* hasRecentScan(maxAgeMs)
recentScan(ts, t, maxAgeMs) == t - ts < maxAgeMs

\* updateDeviceState storing the updates alone, the cached fields dropped
patchedEntry_UpdatesOnly(device, updates, t) ==
    Spread(updates, [cachedAt |-> t])

\* the value updateDeviceState stores for an existing entry
patchedEntry(device, updates, t) ==
    Spread(Spread(device, updates), [cachedAt |-> t])

\* updateDeviceState as an upsert: an absent id gets an entry made of the updates
patchedMap_Upsert(m, deviceId, updates, t) ==
    IF ~MapHas(m, deviceId)
    THEN MapSet(m, deviceId, Spread(updates, [id |-> deviceId, cachedAt |-> t]))
    ELSE MapSet(m, deviceId, patchedEntry(MapGet(m, deviceId), updates, t))

\* the map updateDeviceState leaves: untouched when the id is absent
patchedMap(m, deviceId, updates, t) ==
    IF ~MapHas(m, deviceId)
    THEN m
    ELSE MapSet(m, deviceId, patchedEntry(MapGet(m, deviceId), updates, t))

\* public cacheDevice(device)
CacheDevice(device) ==
    /\ deviceCache' = cacheDeviceIn(deviceCache, device, now)
    /\ cacheCall' = [op |-> "cacheDevice", arg |-> device]
    /\ sinceClear' = IF sinceClear = "none" THEN "none" ELSE "single"
    /\ UNCHANGED <<lastScanTimestamp, storage, now, tick, putAt>>

\* public cacheDevices(devices)
CacheDevices(devices) ==
    /\ deviceCache' = cacheEach(deviceCache, devices, now)
    /\ lastScanTimestamp' = scanStamp(lastScanTimestamp, now)
    /\ storage' = savedItems(deviceCache', lastScanTimestamp')
    /\ cacheCall' = [op |-> "cacheDevices", arg |-> devices]
    /\ putAt' = now
    /\ sinceClear' = "none"
    /\ UNCHANGED <<now, tick>>

\* public getDevice(deviceId); the result is {} for null, {device} otherwise
GetDevice(deviceId) ==
    /\ IF ~MapHas(deviceCache, deviceId)
       THEN /\ cacheCall' = [op |-> "getDevice", arg |-> deviceId, ret |-> {}]
            /\ UNCHANGED deviceCache
       ELSE IF isExpired(MapGet(deviceCache, deviceId).cachedAt, now)
       THEN /\ deviceCache' = MapDelete(deviceCache, deviceId)
            /\ cacheCall' = [op |-> "getDevice", arg |-> deviceId, ret |-> {}]
       ELSE /\ cacheCall' = [op |-> "getDevice", arg |-> deviceId,
                             ret |-> {stripCacheMetadata(MapGet(deviceCache, deviceId))}]
            /\ UNCHANGED deviceCache
    /\ UNCHANGED <<lastScanTimestamp, storage, now, tick, putAt, sinceClear>>

\* public getAllDevices()
GetAllDevices ==
    /\ cacheCall' = [op |-> "getAllDevices", ret |-> liveDevices(deviceCache, now)]
    /\ deviceCache' = evictExpired(deviceCache, now)
    /\ UNCHANGED <<lastScanTimestamp, storage, now, tick, putAt, sinceClear>>

\* public hasRecentScan(maxAgeMs)
HasRecentScan(maxAgeMs) ==
    /\ cacheCall' = [op |-> "hasRecentScan", arg |-> maxAgeMs,
                     ret |-> recentScan(lastScanTimestamp, now, maxAgeMs)]
    /\ UNCHANGED <<deviceCache, lastScanTimestamp, storage, now, tick, putAt, sinceClear>>

\* public updateDeviceState(deviceId, updates)
UpdateDeviceState(deviceId, updates) ==
    /\ deviceCache' = patchedMap(deviceCache, deviceId, updates, now)
    /\ IF ~MapHas(deviceCache, deviceId)
       THEN /\ cacheCall' = [op |-> "updateDeviceState", arg |-> deviceId,
                             updates |-> updates, ret |-> FALSE]
            /\ UNCHANGED storage
       ELSE /\ storage' = savedItems(deviceCache', lastScanTimestamp)
            /\ cacheCall' = [op |-> "updateDeviceState", arg |-> deviceId,
                             updates |-> updates, ret |-> TRUE]
    /\ UNCHANGED <<lastScanTimestamp, now, tick, putAt, sinceClear>>

\* clearCache without the reset of lastScanTimestamp
ClearCache_StampKept ==
    /\ deviceCache' = << >>
    /\ storage' = NoItems
    /\ cacheCall' = [op |-> "clearCache"]
    /\ putAt' = -1
    /\ sinceClear' = "cleared"
    /\ UNCHANGED <<lastScanTimestamp, now, tick>>

\* public clearCache()
ClearCache ==
    /\ deviceCache' = << >>
    /\ lastScanTimestamp' = 0
    /\ storage' = NoItems
    /\ cacheCall' = [op |-> "clearCache"]
    /\ putAt' = -1
    /\ sinceClear' = "cleared"
    /\ UNCHANGED <<now, tick>>

\* the clock moves to its next observed instant
Tick ==
    /\ tick < Len(ClockSchedule)
    /\ tick' = tick + 1
    /\ now' = StartTime + ClockSchedule[tick + 1] * MinuteMs
    /\ cacheCall' = NoCall
    /\ UNCHANGED <<deviceCache, lastScanTimestamp, storage, putAt, sinceClear>>

InitCache ==
    /\ deviceCache = << >>
    /\ lastScanTimestamp = 0
    /\ storage = NoItems
    /\ now = StartTime
    /\ tick = 1
    /\ cacheCall = NoCall
    /\ putAt = -1
    /\ sinceClear = "none"

NextCache ==
    \/ \E d \in {DevFan} : CacheDevice(d)
    \/ \E ds \in CacheInputs : CacheDevices(ds)
    \/ \E id \in DeviceIds : GetDevice(id)
    \/ GetAllDevices
    \/ \E m \in MaxAgeInputs : HasRecentScan(m)
    \/ \E id \in DeviceIds, u \in UpdateInputs : UpdateDeviceState(id, u)
    \/ ClearCache
    \/ Tick

(***************************************************************************)
(* Strings that the code searches or builds are sequences of characters;   *)
(* strings it only compares are TLA+ strings.                              *)
(***************************************************************************)
\* String.prototype.toLowerCase
toLowerCase(str) ==
    LET UpperCase == <<"A", "B", "C", "D", "E", "F", "G", "H", "I", "J", "K", "L", "M",
                       "N", "O", "P", "Q", "R", "S", "T", "U", "V", "W", "X", "Y", "Z">>
        LowerCase == <<"a", "b", "c", "d", "e", "f", "g", "h", "i", "j", "k", "l", "m",
                       "n", "o", "p", "q", "r", "s", "t", "u", "v", "w", "x", "y", "z">>
    IN  [i \in 1..Len(str) |->
            IF \E k \in 1..26 : UpperCase[k] = str[i]
            THEN LowerCase[CHOOSE k \in 1..26 : UpperCase[k] = str[i]]
            ELSE str[i]]

\* String.prototype.includes
includes(str, needle) ==
    \E i \in 1..(Len(str) - Len(needle) + 1) :
        \A k \in 1..Len(needle) : str[i + k - 1] = needle[k]

\* the absent value of a numeric field (undefined)
Undefined == 0 - 1

\* obj.field, `absent` standing for undefined: Undefined for a number, << >>
\* for a searched string, "" for a compared string, FALSE for a flag
Field(obj, f, absent) == IF f \in DOMAIN obj THEN obj[f] ELSE absent

\* obj.field || d, `falsy` being the falsy value of the field's type: 0 for a
\* number, << >> for a searched string, "" for a compared string
FieldOr(obj, f, falsy, d) == IF f \in DOMAIN obj /\ obj[f] # falsy THEN obj[f] ELSE d

\* null and a non-null device, as returned by the detect functions and scanIp
Null == << >>
Some(device) == <<device>>

\* the string literals of the backend, and the names the devices and services
\* of the modelled network carry
Text ==
  [
    light |-> <<"l", "i", "g", "h", "t">>,
    bulb |-> <<"b", "u", "l", "b">>,
    lamp |-> <<"l", "a", "m", "p">>,
    fan |-> <<"f", "a", "n">>,
    ac |-> <<"a", "c">>,
    aircon |-> <<"a", "i", "r", "c", "o", "n">>,
    tv |-> <<"t", "v">>,
    television |-> <<"t", "e", "l", "e", "v", "i", "s", "i", "o", "n">>,
    hue_tcp |-> <<"_", "h", "u", "e", ".", "_", "t", "c", "p">>,
    wiz_tcp |-> <<"_", "w", "i", "z", ".", "_", "t", "c", "p">>,
    tuya_tcp |-> <<"_", "t", "u", "y", "a", ".", "_", "t", "c", "p">>,
    tasmota_tcp |-> <<"_", "t", "a", "s", "m", "o", "t", "a", ".", "_", "t", "c", "p">>,
    http_tcp |-> <<"_", "h", "t", "t", "p", ".", "_", "t", "c", "p">>,
    u_hue |-> <<"_", "h", "u", "e">>,
    u_wiz |-> <<"_", "w", "i", "z">>,
    u_tuya |-> <<"_", "t", "u", "y", "a">>,
    u_tasmota |-> <<"_", "t", "a", "s", "m", "o", "t", "a">>,
    PhilipsWiZLight |-> <<"P", "h", "i", "l", "i", "p", "s", " ", "W", "i", "Z", " ", "L", "i", "g", "h", "t">>,
    PhilipsHueBridge |-> <<"P", "h", "i", "l", "i", "p", "s", " ", "H", "u", "e", " ", "B", "r", "i", "d", "g", "e">>,
    SyskaSmartLight |-> <<"S", "y", "s", "k", "a", " ", "S", "m", "a", "r", "t", " ", "L", "i", "g", "h", "t">>,
    TasmotaDevice |-> <<"T", "a", "s", "m", "o", "t", "a", " ", "D", "e", "v", "i", "c", "e">>,
    TuyaSmartDevice |-> <<"T", "u", "y", "a", " ", "S", "m", "a", "r", "t", " ", "D", "e", "v", "i", "c", "e">>,
    HavellsSmartDevice |-> <<"H", "a", "v", "e", "l", "l", "s", " ", "S", "m", "a", "r", "t", " ", "D", "e", "v", "i", "c", "e">>,
    WiproSmartDevice |-> <<"W", "i", "p", "r", "o", " ", "S", "m", "a", "r", "t", " ", "D", "e", "v", "i", "c", "e">>,
    OrientSmartDevice |-> <<"O", "r", "i", "e", "n", "t", " ", "S", "m", "a", "r", "t", " ", "D", "e", "v", "i", "c", "e">>,
    CromptonSmartDevice |-> <<"C", "r", "o", "m", "p", "t", "o", "n", " ", "S", "m", "a", "r", "t", " ", "D", "e", "v", "i", "c", "e">>,
    BajajSmartDevice |-> <<"B", "a", "j", "a", "j", " ", "S", "m", "a", "r", "t", " ", "D", "e", "v", "i", "c", "e">>,
    UnknownDevice |-> <<"U", "n", "k", "n", "o", "w", "n", " ", "D", "e", "v", "i", "c", "e">>,
    PhilipsHueDevice |-> <<"P", "h", "i", "l", "i", "p", "s", "-", "h", "u", "e", " ", "D", "e", "v", "i", "c", "e">>,
    PhilipsWizDevice |-> <<"P", "h", "i", "l", "i", "p", "s", "-", "w", "i", "z", " ", "D", "e", "v", "i", "c", "e">>,
    TuyaDevice |-> <<"T", "u", "y", "a", " ", "D", "e", "v", "i", "c", "e">>,
    BedroomFan |-> <<"B", "e", "d", "r", "o", "o", "m", " ", "F", "a", "n">>,
    FanModule |-> <<"F", "a", "n", " ", "M", "o", "d", "u", "l", "e">>,
    WiZBulb |-> <<"W", "i", "Z", " ", "B", "u", "l", "b">>,
    Hue |-> <<"H", "u", "e">>,
    SmartPlug |-> <<"S", "m", "a", "r", "t", " ", "P", "l", "u", "g">>,
    LivingRoom |-> <<"L", "i", "v", "i", "n", "g", " ", "R", "o", "o", "m">>,
    AcmeHub |-> <<"A", "c", "m", "e", " ", "H", "u", "b">>
  ]

(***************************************************************************)
(* IPv4 arithmetic of the `ip` package. An address is its four octets; a   *)
(* long (ip.toLong) is kept as its two 16-bit halves [hi, lo], its value   *)
(* being hi * 2^16 + lo.                                                   *)
(***************************************************************************)
\* ip.toLong
toLong(ipAddress) ==
    [hi |-> ipAddress[1] * 256 + ipAddress[2], lo |-> ipAddress[3] * 256 + ipAddress[4]]

\* ip.fromLong
fromLong(l) ==
    <<(l.hi % (2^16)) \div 256, l.hi % 256, l.lo \div 256, l.lo % 256>>

\* l + n on longs, 0 <= n
LongAdd(l, n) ==
    LET lo == l.lo + n IN [hi |-> l.hi + (lo \div (2^16)), lo |-> lo % (2^16)]

\* a <= b on longs
LongLeq(a, b) == a.hi < b.hi \/ (a.hi = b.hi /\ a.lo <= b.lo)

\* the number of zero bits of a netmask octet 256 - 2^k
OctetHostBits(m) == CHOOSE k \in 0..8 : m = 256 - 2^k

\* ip.cidrSubnet throws on what is no address or no mask
cidrThrows(addr, mask) ==
    LET IsIPv4(a) == Len(a) = 4 /\ \A i \in 1..4 : a[i] \in 0..255 IN
    \/ ~IsIPv4(addr)
    \/ ~IsIPv4(mask)
    \/ \E i \in 1..4 : \A k \in 0..8 : mask[i] # 256 - 2^k
    \/ \E i \in 1..3 : mask[i] # 255 /\ mask[i + 1] # 0

\* the subnet ip.cidrSubnet(`${localIp}/${subnetMask}`) stands for: the network
\* address is the address masked octet by octet, the first and last address are
\* the host addresses next to the network and the broadcast address
cidrSubnet(addr, mask) ==
    LET masked == [i \in 1..4 |-> addr[i] - (addr[i] % (2^OctetHostBits(mask[i])))]
        subnetMaskLength == 32 - (OctetHostBits(mask[1]) + OctetHostBits(mask[2])
                                      + OctetHostBits(mask[3]) + OctetHostBits(mask[4]))
        networkAddress == toLong(masked)
        numberOfAddresses == 2^(32 - subnetMaskLength)
    IN  [ networkAddress |-> fromLong(networkAddress),
          firstAddress |-> IF numberOfAddresses <= 2
                           THEN fromLong(networkAddress)
                           ELSE fromLong(LongAdd(networkAddress, 1)),
          lastAddress |-> IF numberOfAddresses <= 2
                          THEN fromLong(LongAdd(networkAddress, numberOfAddresses - 1))
                          ELSE fromLong(LongAdd(networkAddress, numberOfAddresses - 2)) ]

\* startIp + 100
SCAN_SPAN == 100

\* endIp = Math.min(startIp + 100, ip.toLong(networkCidr.lastAddress))
rangeEnd(startIp, lastIp) ==
    IF LongLeq(LongAdd(startIp, SCAN_SPAN), lastIp) THEN LongAdd(startIp, SCAN_SPAN)
    ELSE lastIp

\* Default to a common home network range
FALLBACK_RANGE == [start |-> <<192, 168, 1, 1>>, end |-> <<192, 168, 1, 100>>]

\* getIpRange(localIp, subnetMask)
getIpRange(localIp, subnetMask) ==
    IF cidrThrows(localIp, subnetMask)
    THEN FALLBACK_RANGE
    ELSE LET networkCidr == cidrSubnet(localIp, subnetMask)
             startIp == toLong(networkCidr.firstAddress)
             endIp == rangeEnd(startIp, toLong(networkCidr.lastAddress))
         IN  [start |-> fromLong(startIp), end |-> fromLong(endIp)]

\* Helper function to detect device type based on model name (backend)
detectDeviceType(modelName) ==
    LET lowerModelName == toLowerCase(modelName) IN
    IF includes(lowerModelName, Text.light) \/ includes(lowerModelName, Text.bulb)
         \/ includes(lowerModelName, Text.lamp)
    THEN "light"
    ELSE IF includes(lowerModelName, Text.fan) THEN "fan"
    ELSE IF includes(lowerModelName, Text.ac) \/ includes(lowerModelName, Text.aircon)
    THEN "ac"
    ELSE IF includes(lowerModelName, Text.tv) \/ includes(lowerModelName, Text.television)
    THEN "tv"
    ELSE "light"

(***************************************************************************)
(* Backend vendor probes (README.md, "Device detection functions").        *)
(* A response is [ok, data, ports]: ok is FALSE when the request threw     *)
(* (timeout, connection refused), data is response.data, and ports holds   *)
(* the outcomes of the three Tuya port requests.                           *)
(***************************************************************************)
Probes == {"wiz", "hue", "syska", "tasmota", "tuya", "havells", "wipro", "orient",
           "crompton", "bajaj"}

SCAN_ORDER_TuyaFirst ==
    <<"tuya", "wiz", "hue", "syska", "tasmota", "havells", "wipro", "orient", "crompton",
      "bajaj">>

\* the order of the detect calls in scanIp
SCAN_ORDER == <<"wiz", "hue", "syska", "tasmota", "tuya", "havells", "wipro", "orient",
                "crompton", "bajaj">>

\* a body with none of the fields the probes read
NoData == [empty |-> TRUE]

Device(id, name, type, state, ipAddress, protocol, value, temperature) ==
    [id |-> id, name |-> name, type |-> type, state |-> state, ip |-> ipAddress,
     protocol |-> protocol, value |-> value, temperature |-> temperature]

detectWizDevice(ipAddress, resp) ==
    IF resp.ok /\ "result" \in DOMAIN resp.data /\ resp.data.result
    THEN Some(Device(MkId("philips-wiz", ipAddress), Text.PhilipsWiZLight, "light", FALSE, ipAddress,
                     "philips-wiz", 100, Undefined))
    ELSE Null

detectHueDevice(ipAddress, resp) ==
    IF resp.ok /\ Field(resp.data, "name", << >>) # << >> /\ Field(resp.data, "bridgeid", "") # ""
    THEN Some(Device(MkId("philips-hue", ipAddress), Text.PhilipsHueBridge, "bridge", TRUE, ipAddress,
                     "philips-hue", Undefined, Undefined))
    ELSE Null

detectSyskaDevice(ipAddress, resp) ==
    IF resp.ok /\ Field(resp.data, "manufacturer", "") = "Syska"
    THEN Some(Device(MkId("syska", ipAddress), Text.SyskaSmartLight, "light", FALSE, ipAddress,
                     "syska", 100, Undefined))
    ELSE Null

detectTasmotaDevice(ipAddress, resp) ==
    IF resp.ok /\ "Status" \in DOMAIN resp.data
    THEN LET deviceName == FieldOr(resp.data.Status, "FriendlyName", << >>, Text.TasmotaDevice)
             deviceType == detectDeviceType(Field(resp.data.Status, "DeviceName", << >>))
         IN  Some(Device(MkId("tasmota", ipAddress), deviceName, deviceType, FALSE, ipAddress,
                         "tasmota",
                         IF deviceType = "light" THEN 100
                         ELSE IF deviceType = "fan" THEN 3 ELSE Undefined,
                         Undefined))
    ELSE Null

\* resp.ok is the result of pingIp; a port request that answers makes the match,
\* one that throws (whatever its error code) leads to the next port
detectTuyaDevice(ipAddress, resp) ==
    IF resp.ok /\ \E k \in 1..Len(resp.ports) : resp.ports[k] = "ok"
    THEN Some(Device(MkId("tuya", ipAddress), Text.TuyaSmartDevice, "light", FALSE, ipAddress,
                     "tuya", 100, Undefined))
    ELSE Null

detectHavellsDevice(ipAddress, resp) ==
    IF resp.ok /\ Field(resp.data, "brand", "") = "Havells"
    THEN LET deviceType == FieldOr(resp.data, "type", "", "light")
         IN  Some(Device(MkId("havells", ipAddress),
                         FieldOr(resp.data, "name", << >>, Text.HavellsSmartDevice),
                         deviceType, Field(resp.data, "state", "") = "on", ipAddress, "havells",
                         IF deviceType = "light"
                         THEN FieldOr(resp.data, "brightness", 0, 100) ELSE Undefined,
                         Undefined))
    ELSE Null

detectWiproDevice(ipAddress, resp) ==
    IF resp.ok /\ Field(resp.data, "manufacturer", "") = "Wipro"
    THEN Some(Device(MkId("wipro", ipAddress),
                     FieldOr(resp.data, "name", << >>, Text.WiproSmartDevice),
                     FieldOr(resp.data, "type", "", "light"),
                     Field(resp.data, "power", "") = "on", ipAddress, "wipro",
                     FieldOr(resp.data, "brightness", 0, 100), Undefined))
    ELSE Null

detectOrientDevice(ipAddress, resp) ==
    IF resp.ok /\ Field(resp.data, "brand", "") = "Orient"
    THEN LET deviceType == FieldOr(resp.data, "type", "", "fan")
             value == IF deviceType = "fan" THEN FieldOr(resp.data, "speed", 0, 3)
                      ELSE IF deviceType = "ac" THEN Undefined
                      ELSE FieldOr(resp.data, "brightness", 0, 100)
         IN  Some(Device(MkId("orient", ipAddress),
                         FieldOr(resp.data, "name", << >>, Text.OrientSmartDevice),
                         deviceType, Field(resp.data, "power", "") = "on", ipAddress, "orient",
                         value,
                         IF deviceType = "ac"
                         THEN FieldOr(resp.data, "temperature", 0, 24) ELSE Undefined))
    ELSE Null

detectCromptonDevice(ipAddress, resp) ==
    IF resp.ok /\ Field(resp.data, "brand", "") = "Crompton"
    THEN LET deviceType == FieldOr(resp.data, "type", "", "fan")
         IN  Some(Device(MkId("crompton", ipAddress),
                         FieldOr(resp.data, "name", << >>, Text.CromptonSmartDevice),
                         deviceType, Field(resp.data, "state", "") = "on", ipAddress, "crompton",
                         IF deviceType = "light"
                         THEN FieldOr(resp.data, "brightness", 0, 100)
                         ELSE IF deviceType = "fan"
                         THEN FieldOr(resp.data, "speed", 0, 3) ELSE Undefined,
                         Undefined))
    ELSE Null

detectBajajDevice(ipAddress, resp) ==
    IF resp.ok /\ Field(resp.data, "brand", "") = "Bajaj"
    THEN Some(Device(MkId("bajaj", ipAddress),
                     FieldOr(resp.data, "name", << >>, Text.BajajSmartDevice),
                     FieldOr(resp.data, "type", "", "fan"),
                     Field(resp.data, "status", "") = "on", ipAddress, "bajaj",
                     IF Field(resp.data, "type", "") = "fan"
                     THEN FieldOr(resp.data, "speed", 0, 3)
                     ELSE IF Field(resp.data, "type", "") = "light"
                     THEN FieldOr(resp.data, "brightness", 0, 100) ELSE Undefined,
                     Undefined))
    ELSE Null

\* the backend detect function of a probe
detect(probe, ipAddress, resp) ==
    CASE probe = "wiz" -> detectWizDevice(ipAddress, resp)
      [] probe = "hue" -> detectHueDevice(ipAddress, resp)
      [] probe = "syska" -> detectSyskaDevice(ipAddress, resp)
      [] probe = "tasmota" -> detectTasmotaDevice(ipAddress, resp)
      [] probe = "tuya" -> detectTuyaDevice(ipAddress, resp)
      [] probe = "havells" -> detectHavellsDevice(ipAddress, resp)
      [] probe = "wipro" -> detectWiproDevice(ipAddress, resp)
      [] probe = "orient" -> detectOrientDevice(ipAddress, resp)
      [] probe = "crompton" -> detectCromptonDevice(ipAddress, resp)
      [] probe = "bajaj" -> detectBajajDevice(ipAddress, resp)

\* the value of the first detect call, in `order`, that is not null
firstDetected(order, ipAddress, responses) ==
    LET F[i \in 1..(Len(order) + 1)] ==
            IF i > Len(order) THEN Null
            ELSE LET d == detect(order[i], ipAddress, responses[order[i]])
                 IN  IF d # Null THEN d ELSE F[i + 1]
    IN  F[1]

\* scanIp(ipAddress): the value its promise settles to
scanIp(ipAddress, responses) == firstDetected(SCAN_ORDER, ipAddress, responses)

\* a pingIp whose catch reports the address as reachable
pingIp_CatchTrue(execOutcome) == execOutcome \in {"ttl", "error"}

\* pingIp: true when the ping's output shows a TTL; a failed command is caught
pingIp(execOutcome) == execOutcome = "ttl"

(***************************************************************************)
(* discoverWithMdns: the 'up' handler. An IPv4 address is its four octets, *)
(* an IPv6 address its eight groups: addr.includes('.') holds of the IPv4  *)
(* ones.                                                                   *)
(***************************************************************************)
\* service.addresses.find((addr) => addr.includes('.')) || ''
firstIPv4(addresses) ==
    IF \E k \in 1..Len(addresses) : Len(addresses[k]) = 4
    THEN addresses[CHOOSE k \in 1..Len(addresses) :
                       /\ Len(addresses[k]) = 4
                       /\ \A j \in 1..(k - 1) : Len(addresses[j]) # 4]
    ELSE << >>

\* browser.on('up', (service) => ...): the devices array after the handler ran
mdnsUp(devices, service) ==
    IF service.host = "" \/ Len(service.addresses) = 0 THEN devices
    ELSE LET ipAddress == firstIPv4(service.addresses) IN
         IF ipAddress = << >> THEN devices
         ELSE LET protocol ==
                      IF includes(service.type, Text.u_hue) THEN "philips-hue"
                      ELSE IF includes(service.type, Text.u_wiz) THEN "philips-wiz"
                      ELSE IF includes(service.type, Text.u_tuya) THEN "tuya"
                      ELSE IF includes(service.type, Text.u_tasmota) THEN "tasmota"
                      ELSE "unknown"
                  serviceName == toLowerCase(service.name)
                  type ==
                      IF includes(serviceName, Text.light) \/ includes(serviceName, Text.bulb)
                      THEN "light"
                      ELSE IF includes(serviceName, Text.fan) THEN "fan"
                      ELSE IF includes(serviceName, Text.ac)
                                \/ includes(serviceName, Text.aircon)
                      THEN "ac"
                      ELSE IF includes(serviceName, Text.tv) THEN "tv"
                      ELSE "light"
                  \* `${protocol.charAt(0).toUpperCase() + protocol.slice(1)} Device`
                  defaultName ==
                      CASE protocol = "philips-hue" -> Text.PhilipsHueDevice
                        [] protocol = "philips-wiz" -> Text.PhilipsWizDevice
                        [] protocol = "tuya" -> Text.TuyaDevice
                        [] protocol = "tasmota" -> Text.TasmotaDevice
                        [] protocol = "unknown" -> Text.UnknownDevice
              IN  Append(devices,
                         Device(MkId(protocol, ipAddress),
                                IF service.name # << >> THEN service.name ELSE defaultName,
                                type, FALSE, ipAddress, protocol,
                                IF type = "light" THEN 100
                                ELSE IF type = "fan" THEN 3 ELSE Undefined,
                                IF type = "ac" THEN 24 ELSE Undefined))

(***************************************************************************)
(* getNetworkInfo                                                          *)
(***************************************************************************)
defaultResult ==
    [localIp |-> <<192, 168, 1, 2>>, subnetMask |-> <<255, 255, 255, 0>>,
     gateway |-> <<192, 168, 1, 1>>]

\* the value getNetworkInfo resolves to when the callback's err is not set;
\* cb holds the callback's arguments: err, has (interfaces is not null) and the
\* fields interfaces carries
getNetworkInfo(cb) ==
    IF ~cb.has \/ Field(cb, "ip_address", << >>) = << >>
    THEN defaultResult
    ELSE [localIp |-> cb.ip_address,
          subnetMask |-> FieldOr(cb, "netmask", << >>, <<255, 255, 255, 0>>),
          gateway |-> FieldOr(cb, "gateway_ip", << >>, <<192, 168, 1, 1>>)]

(***************************************************************************)
(* discoverDevices: the pieces of its body                                 *)
(***************************************************************************)
\* Skip our own IP
isOwnIp_Never(currentIp, localIp) == FALSE

isOwnIp(currentIp, localIp) == currentIp = localIp

\* scanPromises.length >= 10
BATCH_SIZE == 10

\* a loop that never stops to await its promises
batchFull_Never(pending) == FALSE

\* if (scanPromises.length >= 10): the loop awaits Promise.all(scanPromises)
\* and empties the array before it goes on
batchFull(pending) == Len(pending) >= BATCH_SIZE

\* results.forEach(device => { if (device) devices.push(device); })
pushResults(devices, results) ==
    LET F[i \in 0..Len(results)] ==
            IF i = 0 THEN devices
            ELSE IF results[i] # Null THEN Append(F[i - 1], results[i][1]) ELSE F[i - 1]
    IN  F[Len(results)]

\* self.findIndex((d) => d.ip === device.ip), 1-based
findIndexByIp(self, ipAddress) ==
    CHOOSE i \in 1..Len(self) :
        /\ self[i].ip = ipAddress
        /\ \A j \in 1..(i - 1) : self[j].ip # ipAddress

uniqueDevices_All(devices) == devices

\* devices.filter((device, index, self) => index === self.findIndex((d) => d.ip === device.ip))
uniqueDevices(devices) ==
    SelectIdx(devices, {index \in 1..Len(devices) :
                            index = findIndexByIp(devices, devices[index].ip)})

\* the outcome of a call that returned `list`
Returned(list) == [kind |-> "returned", result |-> list]

catchError_Rethrow == [kind |-> "raised", result |-> << >>]

\* catch (error) { console.error(...); return []; }
catchError == Returned(<< >>)

(***************************************************************************)
(* The network the backend runs in                                         *)
(***************************************************************************)
\* number of 'up' events the browser delivers before the 3 s timeout
MaxAnnounce == 2

\* the services that may come up: one without a name, one with only an IPv6
\* address, two at addresses the scan also reaches
MdnsServices ==
    { [type |-> Text.http_tcp, name |-> Text.BedroomFan, host |-> "fan.local",
       addresses |-> << <<65152, 0, 0, 0, 0, 0, 0, 1>>, <<192, 168, 1, 1>> >>],
      [type |-> Text.wiz_tcp, name |-> Text.WiZBulb, host |-> "wiz.local",
       addresses |-> << <<192, 168, 1, 21>> >>],
      [type |-> Text.tuya_tcp, name |-> << >>, host |-> "plug.local",
       addresses |-> << <<10, 0, 0, 2>> >>],
      [type |-> Text.hue_tcp, name |-> Text.Hue, host |-> "hue.local",
       addresses |-> << <<65152, 0, 0, 0, 0, 0, 0, 2>> >>] }

\* what network.get_active_interface may hand to its callback: an error, no
\* interface, interfaces with and without netmask and gateway, a /30, a /16,
\* and a netmask that is no netmask
NetworkCallbacks ==
    { [err |-> TRUE, has |-> FALSE],
      [err |-> FALSE, has |-> FALSE],
      [err |-> FALSE, has |-> TRUE, ip_address |-> <<192, 168, 1, 50>>],
      [err |-> FALSE, has |-> TRUE, ip_address |-> <<192, 168, 1, 200>>,
       netmask |-> <<255, 255, 255, 0>>, gateway_ip |-> <<192, 168, 1, 1>>],
      [err |-> FALSE, has |-> TRUE, ip_address |-> <<192, 168, 1, 2>>,
       netmask |-> <<255, 255, 255, 252>>, gateway_ip |-> <<192, 168, 1, 1>>],
      [err |-> FALSE, has |-> TRUE, ip_address |-> <<10, 0, 0, 1>>,
       netmask |-> <<255, 255, 0, 0>>, gateway_ip |-> <<10, 0, 0, 254>>],
      [err |-> FALSE, has |-> TRUE, ip_address |-> <<192, 168, 1, 7>>,
       netmask |-> <<255, 255, 255>>, gateway_ip |-> <<192, 168, 1, 1>>] }

\* a request that threw, a response with a body, and (for the Tuya probe) a
\* ping that was answered followed by the outcomes of the three port requests
Failed == [ok |-> FALSE, data |-> NoData, ports |-> << >>]
Answer(data) == [ok |-> TRUE, data |-> data, ports |-> << >>]
Reachable(ports) == [ok |-> TRUE, data |-> NoData, ports |-> ports]

\* the hosts of the LAN. pings: the outcomes of the ping command for the address
\* (output with a TTL, output without one, a failed command); responses: what
\* the host answers to the ten probes. 192.168.1.20-30 always answer the ping,
\* and so does every address the scanning host may have itself; 192.168.1.1
\* and 192.168.1.101 may or may not be up.
Lan(ipAddress) ==
    LET SilentHost ==
            [p \in Probes |-> IF p = "tuya"
                              THEN Reachable(<<"refused", "timeout", "refused">>)
                              ELSE Failed]
        WizHost ==
            [p \in Probes |-> IF p = "wiz" THEN Answer([result |-> TRUE]) ELSE SilentHost[p]]
        TasmotaFanHost ==
            [p \in Probes |->
                IF p = "tasmota"
                THEN Answer([Status |-> [FriendlyName |-> Text.FanModule,
                                         DeviceName |-> Text.BedroomFan]])
                ELSE SilentHost[p]]
        OwnAddresses ==
            {cb.ip_address : cb \in {c \in NetworkCallbacks : "ip_address" \in DOMAIN c}}
                \cup {defaultResult.localIp}
    IN  IF ipAddress \in {<<192, 168, 1, 1>>, <<192, 168, 1, 101>>}
        THEN [pings |-> {"ttl", "noreply", "error"}, responses |-> {SilentHost, WizHost}]
        ELSE IF ipAddress \in OwnAddresses
        THEN [pings |-> {"ttl"}, responses |-> {WizHost}]
        ELSE IF ipAddress = <<192, 168, 1, 21>>
        THEN [pings |-> {"ttl"}, responses |-> {TasmotaFanHost}]
        ELSE IF ipAddress \in {<<192, 168, 1, k>> : k \in 20..30}
        THEN [pings |-> {"ttl"}, responses |-> {SilentHost}]
        ELSE [pings |-> {"noreply"}, responses |-> {SilentHost}]

(***************************************************************************)
(* discoverDevices(), one step per await                                   *)
(***************************************************************************)
InitBackend ==
    /\ bpc = "idle"
    /\ mdnsDevices = << >>
    /\ announced = 0
    /\ bDevices = << >>
    /\ networkInfo = [localIp |-> << >>, subnetMask |-> << >>, gateway |-> << >>]
    /\ ipRange = [start |-> << >>, end |-> << >>]
    /\ scanI = [hi |-> 0, lo |-> 0]
    /\ scanPromises = << >>
    /\ bOutcome = [kind |-> "pending", result |-> << >>]
    /\ walked = 0
    /\ pinged = {}
    /\ scanned = {}
    /\ pingFailed = {}
    /\ bFailed = {}

\* discoverDevices() is called: new Bonjour(), bonjour.find(), browser.start()
StartDiscover(listener) ==
    /\ bpc = "idle"
    /\ IF listener = "throws"
       THEN /\ bOutcome' = catchError
            /\ bpc' = "done"
            /\ bFailed' = bFailed \cup {"listener"}
       ELSE /\ bpc' = "mdns"
            /\ UNCHANGED <<bOutcome, bFailed>>
    /\ UNCHANGED <<mdnsDevices, announced, bDevices, networkInfo, ipRange, scanI,
                   scanPromises, walked, pinged, scanned>>
    /\ UNCHANGED pingFailed

\* a service comes up within the 3 s window
MdnsUp(service) ==
    /\ bpc = "mdns"
    /\ announced < MaxAnnounce
    /\ announced' = announced + 1
    /\ mdnsDevices' = mdnsUp(mdnsDevices, service)
    /\ UNCHANGED <<bpc, bDevices, networkInfo, ipRange, scanI, scanPromises, bOutcome,
                   walked, pinged, scanned, bFailed>>
    /\ UNCHANGED pingFailed

\* a window that is closed only once a service has come up
MdnsTimeout_AfterAnnouncement ==
    /\ bpc = "mdns"
    /\ announced > 0
    /\ bDevices' = bDevices \o mdnsDevices
    /\ bpc' = "netinfo"
    /\ UNCHANGED <<mdnsDevices, announced, networkInfo, ipRange, scanI, scanPromises,
                   bOutcome, walked, pinged, scanned, pingFailed, bFailed>>

\* the timeout resolves the promise; devices.push(...mdnsDevices)
MdnsTimeout ==
    /\ bpc = "mdns"
    /\ bDevices' = bDevices \o mdnsDevices
    /\ bpc' = "netinfo"
    /\ UNCHANGED <<mdnsDevices, announced, networkInfo, ipRange, scanI, scanPromises,
                   bOutcome, walked, pinged, scanned, bFailed>>
    /\ UNCHANGED pingFailed

\* network.get_active_interface calls back; getIpRange; the loop is entered
GetNetworkInfo(cb) ==
    /\ bpc = "netinfo"
    /\ IF cb.err
       THEN /\ bOutcome' = catchError
            /\ bpc' = "done"
            /\ bFailed' = bFailed \cup {"netinfo"}
            /\ UNCHANGED <<networkInfo, ipRange, scanI>>
       ELSE /\ networkInfo' = getNetworkInfo(cb)
            /\ ipRange' = getIpRange(networkInfo'.localIp, networkInfo'.subnetMask)
            /\ scanI' = toLong(ipRange'.start)
            /\ bpc' = "scan"
            /\ UNCHANGED <<bOutcome, bFailed>>
    /\ UNCHANGED <<mdnsDevices, announced, bDevices, scanPromises, walked, pinged, scanned>>
    /\ UNCHANGED pingFailed

InLoop == bpc = "scan" /\ LongLeq(scanI, toLong(ipRange.end))

\* an iteration that ends at `continue` for the host's own address
ScanSkipSelf ==
    /\ InLoop
    /\ isOwnIp(fromLong(scanI), networkInfo.localIp)
    /\ scanI' = LongAdd(scanI, 1)
    /\ walked' = walked + 1
    /\ UNCHANGED <<bpc, mdnsDevices, announced, bDevices, networkInfo, ipRange,
                   scanPromises, bOutcome, pinged, scanned, bFailed>>
    /\ UNCHANGED pingFailed

\* an iteration that ends at `continue` for an address that does not answer the ping
ScanUnreachable(exec) ==
    /\ InLoop
    /\ ~isOwnIp(fromLong(scanI), networkInfo.localIp)
    /\ ~pingIp(exec)
    /\ pinged' = pinged \cup {fromLong(scanI)}
    /\ bFailed' = IF exec = "error" THEN bFailed \cup {"ping"} ELSE bFailed
    /\ scanI' = LongAdd(scanI, 1)
    /\ walked' = walked + 1
    /\ UNCHANGED <<bpc, mdnsDevices, announced, bDevices, networkInfo, ipRange,
                   scanPromises, bOutcome, scanned>>
    /\ pingFailed' = pingFailed \cup {fromLong(scanI)}

\* an iteration that reaches scanPromises.push(scanIp(currentIp)), and the batch
\* it awaits when ten promises are pending
ScanProbe(exec, responses) ==
    /\ InLoop
    /\ ~isOwnIp(fromLong(scanI), networkInfo.localIp)
    /\ pingIp(exec)
    /\ pinged' = pinged \cup {fromLong(scanI)}
    /\ scanned' = scanned \cup {fromLong(scanI)}
    /\ bFailed' = IF \E p \in Probes : ~responses[p].ok
                  THEN bFailed \cup {"probe"} ELSE bFailed
    /\ LET pending == Append(scanPromises, scanIp(fromLong(scanI), responses)) IN
       IF batchFull(pending)
       THEN /\ bDevices' = pushResults(bDevices, pending)
            /\ scanPromises' = << >>
       ELSE /\ scanPromises' = pending
            /\ UNCHANGED bDevices
    /\ scanI' = LongAdd(scanI, 1)
    /\ walked' = walked + 1
    /\ UNCHANGED <<bpc, mdnsDevices, announced, networkInfo, ipRange, bOutcome>>
    /\ pingFailed' = IF exec = "ttl" THEN pingFailed ELSE pingFailed \cup {fromLong(scanI)}

\* the loop is left: the remaining promises, the duplicate filter, the return
ScanFinish ==
    /\ bpc = "scan"
    /\ ~LongLeq(scanI, toLong(ipRange.end))
    /\ bDevices' = IF Len(scanPromises) > 0 THEN pushResults(bDevices, scanPromises)
                   ELSE bDevices
    /\ bOutcome' = Returned(uniqueDevices(bDevices'))
    /\ bpc' = "done"
    /\ UNCHANGED <<mdnsDevices, announced, networkInfo, ipRange, scanI, scanPromises,
                   walked, pinged, scanned, bFailed>>
    /\ UNCHANGED pingFailed

NextBackend ==
    \/ \E listener \in {"ok", "throws"} : StartDiscover(listener)
    \/ \E service \in MdnsServices : MdnsUp(service)
    \/ MdnsTimeout
    \/ \E cb \in NetworkCallbacks : GetNetworkInfo(cb)
    \/ ScanSkipSelf
    \/ \E exec \in Lan(fromLong(scanI)).pings : ScanUnreachable(exec)
    \/ \E exec \in Lan(fromLong(scanI)).pings :
           \E responses \in Lan(fromLong(scanI)).responses : ScanProbe(exec, responses)
    \/ ScanFinish


(***************************************************************************)
(* Client vendor probes (localDeviceService.ts, "Device type detection      *)
(* functions"), called by scanIpFallback                                    *)
(***************************************************************************)
\* the decimal digits of an octet
RECURSIVE decimal(_)
decimal(n) ==
    LET Digits == <<"0", "1", "2", "3", "4", "5", "6", "7", "8", "9">> IN
    IF n < 10 THEN <<Digits[n + 1]>> ELSE decimal(n \div 10) \o <<Digits[(n % 10) + 1]>>

\* ${ipAddress} in a template literal
ipText(ipAddress) ==
    decimal(ipAddress[1]) \o <<".">> \o decimal(ipAddress[2]) \o <<".">>
        \o decimal(ipAddress[3]) \o <<".">> \o decimal(ipAddress[4])

\* the string literals of the client, and the model names the devices of the
\* modelled network carry
ClientText ==
  [
    led |-> <<"l", "e", "d">>,
    air |-> <<"a", "i", "r">>,
    WiZLight_ |-> <<"W", "i", "Z", " ", "L", "i", "g", "h", "t", " ">>,
    HueLight_ |-> <<"H", "u", "e", " ", "L", "i", "g", "h", "t", " ">>,
    Syska_ |-> <<"S", "y", "s", "k", "a", " ">>,
    TasmotaDevice_ |-> <<"T", "a", "s", "m", "o", "t", "a", " ", "D", "e", "v", "i", "c", "e", " ">>,
    TuyaDevice_ |-> <<"T", "u", "y", "a", " ", "D", "e", "v", "i", "c", "e", " ">>,
    Havells_ |-> <<"H", "a", "v", "e", "l", "l", "s", " ">>,
    Wipro_ |-> <<"W", "i", "p", "r", "o", " ">>,
    Orient_ |-> <<"O", "r", "i", "e", "n", "t", " ">>,
    Crompton_ |-> <<"C", "r", "o", "m", "p", "t", "o", "n", " ">>,
    Bajaj_ |-> <<"B", "a", "j", "a", "j", " ">>,
    Syska |-> <<"S", "y", "s", "k", "a">>,
    Havells |-> <<"H", "a", "v", "e", "l", "l", "s">>,
    Wipro |-> <<"W", "i", "p", "r", "o">>,
    Orient |-> <<"O", "r", "i", "e", "n", "t">>,
    Crompton |-> <<"C", "r", "o", "m", "p", "t", "o", "n">>,
    Bajaj |-> <<"B", "a", "j", "a", "j">>,
    Light |-> <<"L", "i", "g", "h", "t">>,
    Fan |-> <<"F", "a", "n">>,
    Ac |-> <<"A", "c">>,
    Tv |-> <<"T", "v">>,
    SyskaLEDBulb |-> <<"S", "y", "s", "k", "a", " ", "L", "E", "D", " ", "B", "u", "l", "b">>,
    HavellsFan |-> <<"H", "a", "v", "e", "l", "l", "s", " ", "F", "a", "n">>,
    OrientAC |-> <<"O", "r", "i", "e", "n", "t", " ", "A", "C", " ", "1", ".", "5", "T">>,
    CromptonAir |-> <<"C", "r", "o", "m", "p", "t", "o", "n", " ", "A", "i", "r", " ", "3", "6", "0">>
  ]

\* type.charAt(0).toUpperCase() + type.slice(1)
capitalized(type) ==
    CASE type = "light" -> ClientText.Light
      [] type = "fan" -> ClientText.Fan
      [] type = "ac" -> ClientText.Ac
      [] type = "tv" -> ClientText.Tv

\* Helper function to detect device type based on model name (client)
clientDetectDeviceType(modelName) ==
    LET modelLower == toLowerCase(modelName) IN
    IF includes(modelLower, Text.light) \/ includes(modelLower, Text.bulb)
         \/ includes(modelLower, ClientText.led)
    THEN "light"
    ELSE IF includes(modelLower, Text.fan) THEN "fan"
    ELSE IF includes(modelLower, Text.ac) \/ includes(modelLower, ClientText.air) THEN "ac"
    ELSE IF includes(modelLower, Text.tv) \/ includes(modelLower, Text.television) THEN "tv"
    ELSE "light"

\* response.data.manufacturer === vendor ||
\*     (response.data.model && response.data.model.includes(vendorText))
madeBy(data, vendor, vendorText) ==
    \/ Field(data, "manufacturer", "") = vendor
    \/ (Field(data, "model", << >>) # << >> /\ includes(Field(data, "model", << >>), vendorText))

\* the client detect function of a probe: detectWizDevice ... detectBajajDevice
\* of localDeviceService.ts, each under the name scanIpFallback gives its value
clientDetect(probe, ipAddress, resp) ==
    LET wizDevice ==
            IF resp.ok /\ Field(resp.data, "result", FALSE)
            THEN Some(Device(MkId("wiz", ipAddress), ClientText.WiZLight_ \o ipText(ipAddress), "light",
                             FALSE, ipAddress, "philips-wiz", 100, Undefined))
            ELSE Null
        hueDevice ==
            IF resp.ok /\ Field(resp.data, "config", FALSE)
            THEN Some(Device(MkId("hue", ipAddress), ClientText.HueLight_ \o ipText(ipAddress), "light",
                             FALSE, ipAddress, "philips-hue", 80, Undefined))
            ELSE Null
        syskaDevice ==
            IF resp.ok /\ Field(resp.data, "model", << >>) # << >>
                 /\ includes(Field(resp.data, "model", << >>), ClientText.Syska)
            THEN LET type == clientDetectDeviceType(resp.data.model)
                 IN  Some(Device(MkId("syska", ipAddress),
                                 ClientText.Syska_ \o capitalized(type) \o <<" ">> \o ipText(ipAddress),
                                 type, FALSE, ipAddress, "syska",
                                 IF type = "light" THEN 90 ELSE Undefined,
                                 IF type = "ac" THEN 24 ELSE Undefined))
            ELSE Null
        tasmotaDevice ==
            IF resp.ok /\ "Status" \in DOMAIN resp.data
            THEN LET type == clientDetectDeviceType(Field(resp.data.Status, "DeviceName", << >>))
                 IN  Some(Device(MkId("tasmota", ipAddress),
                                 FieldOr(resp.data.Status, "DeviceName", << >>,
                                        ClientText.TasmotaDevice_ \o ipText(ipAddress)),
                                 type, FALSE, ipAddress, "tasmota",
                                 IF type = "fan" THEN 3 ELSE Undefined, Undefined))
            ELSE Null
        tuyaDevice ==
            IF resp.ok /\ (Field(resp.data, "product_id", "") # "" \/ Field(resp.data, "uuid", "") # "")
            THEN LET type == clientDetectDeviceType(Field(resp.data, "product_name", << >>))
                 IN  Some(Device(MkId("tuya", ipAddress),
                                 FieldOr(resp.data, "product_name", << >>,
                                        ClientText.TuyaDevice_ \o ipText(ipAddress)),
                                 type, FALSE, ipAddress, "tuya", Undefined, Undefined))
            ELSE Null
        havellsDevice ==
            IF resp.ok /\ madeBy(resp.data, "Havells", ClientText.Havells)
            THEN LET type == clientDetectDeviceType(Field(resp.data, "model", << >>))
                 IN  Some(Device(MkId("havells", ipAddress),
                                 FieldOr(resp.data, "name", << >>,
                                        ClientText.Havells_ \o capitalized(type) \o <<" ">> \o ipText(ipAddress)),
                                 type, FALSE, ipAddress, "havells",
                                 IF type = "fan" THEN 3 ELSE IF type = "light" THEN 80 ELSE Undefined,
                                 Undefined))
            ELSE Null
        wiproDevice ==
            IF resp.ok /\ madeBy(resp.data, "Wipro", ClientText.Wipro)
            THEN LET type == clientDetectDeviceType(Field(resp.data, "model", << >>))
                 IN  Some(Device(MkId("wipro", ipAddress),
                                 FieldOr(resp.data, "name", << >>,
                                        ClientText.Wipro_ \o capitalized(type) \o <<" ">> \o ipText(ipAddress)),
                                 type, FALSE, ipAddress, "wipro",
                                 IF type = "light" THEN 85 ELSE Undefined, Undefined))
            ELSE Null
        orientDevice ==
            IF resp.ok /\ madeBy(resp.data, "Orient", ClientText.Orient)
            THEN LET model == Field(resp.data, "model", << >>)
                     type == IF model # << >> /\ includes(toLowerCase(model), Text.fan) THEN "fan"
                             ELSE IF model # << >> /\ includes(toLowerCase(model), Text.ac) THEN "ac"
                             ELSE "fan"
                 IN  Some(Device(MkId("orient", ipAddress),
                                 FieldOr(resp.data, "name", << >>,
                                        ClientText.Orient_ \o capitalized(type) \o <<" ">> \o ipText(ipAddress)),
                                 type, FALSE, ipAddress, "orient",
                                 IF type = "fan" THEN 3 ELSE Undefined,
                                 IF type = "ac" THEN 24 ELSE Undefined))
            ELSE Null
        cromptonDevice ==
            IF resp.ok /\ madeBy(resp.data, "Crompton", ClientText.Crompton)
            THEN LET type == FieldOr(resp.data, "type", "",
                                   clientDetectDeviceType(Field(resp.data, "model", << >>)))
                 IN  Some(Device(MkId("crompton", ipAddress),
                                 FieldOr(resp.data, "name", << >>,
                                        ClientText.Crompton_ \o capitalized(type) \o <<" ">> \o ipText(ipAddress)),
                                 type, FALSE, ipAddress, "crompton",
                                 IF type = "fan" THEN 3 ELSE IF type = "light" THEN 80 ELSE Undefined,
                                 Undefined))
            ELSE Null
        bajajDevice ==
            IF resp.ok /\ madeBy(resp.data, "Bajaj", ClientText.Bajaj)
            THEN LET type == FieldOr(resp.data, "type", "",
                                   clientDetectDeviceType(Field(resp.data, "model", << >>)))
                 IN  Some(Device(MkId("bajaj", ipAddress),
                                 FieldOr(resp.data, "name", << >>,
                                        ClientText.Bajaj_ \o capitalized(type) \o <<" ">> \o ipText(ipAddress)),
                                 type, FALSE, ipAddress, "bajaj",
                                 IF type = "fan" THEN 3 ELSE Undefined, Undefined))
            ELSE Null
    IN  CASE probe = "wiz" -> wizDevice
          [] probe = "hue" -> hueDevice
          [] probe = "syska" -> syskaDevice
          [] probe = "tasmota" -> tasmotaDevice
          [] probe = "tuya" -> tuyaDevice
          [] probe = "havells" -> havellsDevice
          [] probe = "wipro" -> wiproDevice
          [] probe = "orient" -> orientDevice
          [] probe = "crompton" -> cromptonDevice
          [] probe = "bajaj" -> bajajDevice

\* the order of the detect calls in scanIpFallback
FALLBACK_ORDER == <<"wiz", "hue", "syska", "tasmota", "tuya", "havells", "wipro", "orient",
                    "crompton", "bajaj">>

(***************************************************************************)
(* scanIp / scanIpFallback for one address, one step per awaited probe      *)
(***************************************************************************)
ClassifyIps == {<<192, 168, 1, 15>>, <<10, 0, 0, 2>>}

\* what a request of the probe may come back with: an error, the body of a
\* device of some other make, the body of a device of the probed make, and
\* for the Tasmota probe the body of a fan module as well
ProbeAnswers(side, probe) ==
    LET ForeignAnswer ==
            Answer([manufacturer |-> "Acme", brand |-> "Acme", model |-> Text.AcmeHub,
                    name |-> Text.AcmeHub])
        BackendAnswer ==
            CASE probe = "wiz" -> Answer([result |-> TRUE])
              [] probe = "hue" -> Answer([name |-> Text.Hue, bridgeid |-> "001788FFFE100491"])
              [] probe = "syska" -> Answer([manufacturer |-> "Syska"])
              [] probe = "tasmota" -> Answer([Status |-> [DeviceName |-> Text.SmartPlug]])
              [] probe = "tuya" -> Reachable(<<"refused", "ok", "timeout">>)
              [] probe = "havells" -> Answer([brand |-> "Havells", type |-> "fan", state |-> "on"])
              [] probe = "wipro" -> Answer([manufacturer |-> "Wipro", power |-> "on", brightness |-> 60])
              [] probe = "orient" -> Answer([brand |-> "Orient", type |-> "ac", power |-> "off"])
              [] probe = "crompton" -> Answer([brand |-> "Crompton", type |-> "light", brightness |-> 0])
              [] probe = "bajaj" -> Answer([brand |-> "Bajaj", name |-> Text.LivingRoom, speed |-> 5])
        ClientAnswer ==
            CASE probe = "wiz" -> Answer([result |-> TRUE])
              [] probe = "hue" -> Answer([config |-> TRUE])
              [] probe = "syska" -> Answer([model |-> ClientText.SyskaLEDBulb])
              [] probe = "tasmota" -> Answer([Status |-> [DeviceName |-> Text.BedroomFan]])
              [] probe = "tuya" -> Answer([uuid |-> "bf3a", product_name |-> Text.SmartPlug])
              [] probe = "havells" -> Answer([manufacturer |-> "Havells", model |-> ClientText.HavellsFan])
              [] probe = "wipro" -> Answer([manufacturer |-> "Wipro", name |-> Text.LivingRoom])
              [] probe = "orient" -> Answer([model |-> ClientText.OrientAC])
              [] probe = "crompton" -> Answer([model |-> ClientText.CromptonAir])
              [] probe = "bajaj" -> Answer([manufacturer |-> "Bajaj", type |-> "fan"])
        \* a Tasmota module that reports a friendly name and a device name
        TasmotaFan ==
            IF probe = "tasmota"
            THEN {Answer([Status |-> [FriendlyName |-> Text.BedroomFan,
                                      DeviceName |-> Text.FanModule]])}
            ELSE {}
    IN  IF side = "backend"
        THEN IF probe = "tuya"
             THEN {Failed, Reachable(<<"refused", "refused", "timeout">>), BackendAnswer}
             ELSE {Failed, ForeignAnswer, BackendAnswer} \cup TasmotaFan
        ELSE {Failed, ForeignAnswer, ClientAnswer} \cup TasmotaFan

orderOf(side) == IF side = "backend" THEN SCAN_ORDER ELSE FALLBACK_ORDER

detectOn(side, probe, ipAddress, resp) ==
    IF side = "backend" THEN detect(probe, ipAddress, resp)
    ELSE clientDetect(probe, ipAddress, resp)

InitClassify ==
    /\ cpc = "idle"
    /\ cSide = "backend"
    /\ cIp = << >>
    /\ cPos = 1
    /\ cLog = << >>
    /\ cResponses = << >>
    /\ cResult = Null

\* scanIp(ipAddress) or scanIpFallback(ipAddress) is called
ClassifyStart(side, ipAddress) ==
    /\ cpc = "idle"
    /\ cpc' = "probing"
    /\ cSide' = side
    /\ cIp' = ipAddress
    /\ UNCHANGED <<cPos, cLog, cResponses, cResult>>

\* a scan that sends the remaining probes at once and returns the device of
\* whichever matching one answers first
ProbeMatch_Race(resp) ==
    /\ cpc = "probing"
    /\ \E k \in cPos..Len(orderOf(cSide)) :
           /\ resp \in ProbeAnswers(cSide, orderOf(cSide)[k])
           /\ detectOn(cSide, orderOf(cSide)[k], cIp, resp) # Null
           /\ cLog' = Append(cLog, orderOf(cSide)[k])
           /\ cResult' = detectOn(cSide, orderOf(cSide)[k], cIp, resp)
    /\ cResponses' = Append(cResponses, resp)
    /\ cpc' = "done"
    /\ UNCHANGED <<cSide, cIp, cPos>>

\* the next detect call is awaited and its device returned
ProbeMatch(resp) ==
    /\ cpc = "probing"
    /\ cPos <= Len(orderOf(cSide))
    /\ resp \in ProbeAnswers(cSide, orderOf(cSide)[cPos])
    /\ detectOn(cSide, orderOf(cSide)[cPos], cIp, resp) # Null
    /\ cLog' = Append(cLog, orderOf(cSide)[cPos])
    /\ cResponses' = Append(cResponses, resp)
    /\ cResult' = detectOn(cSide, orderOf(cSide)[cPos], cIp, resp)
    /\ cpc' = "done"
    /\ UNCHANGED <<cSide, cIp, cPos>>

\* a scan that gives up at the first probe whose request failed
ProbeMiss_StopOnError(resp) ==
    /\ cpc = "probing"
    /\ cPos <= Len(orderOf(cSide))
    /\ resp \in ProbeAnswers(cSide, orderOf(cSide)[cPos])
    /\ detectOn(cSide, orderOf(cSide)[cPos], cIp, resp) = Null
    /\ cLog' = Append(cLog, orderOf(cSide)[cPos])
    /\ cResponses' = Append(cResponses, resp)
    /\ IF resp.ok THEN cPos' = cPos + 1 /\ UNCHANGED <<cpc, cResult>>
       ELSE cpc' = "done" /\ cResult' = Null /\ UNCHANGED cPos
    /\ UNCHANGED <<cSide, cIp>>

\* the next detect call is awaited and yields null
ProbeMiss(resp) ==
    /\ cpc = "probing"
    /\ cPos <= Len(orderOf(cSide))
    /\ resp \in ProbeAnswers(cSide, orderOf(cSide)[cPos])
    /\ detectOn(cSide, orderOf(cSide)[cPos], cIp, resp) = Null
    /\ cLog' = Append(cLog, orderOf(cSide)[cPos])
    /\ cResponses' = Append(cResponses, resp)
    /\ cPos' = cPos + 1
    /\ UNCHANGED <<cpc, cSide, cIp, cResult>>

\* If no known device is detected at this IP: return null
ClassifyNone ==
    /\ cpc = "probing"
    /\ cPos > Len(orderOf(cSide))
    /\ cResult' = Null
    /\ cpc' = "done"
    /\ UNCHANGED <<cSide, cIp, cPos, cLog, cResponses>>

NextClassify ==
    \/ \E side \in {"backend", "client"} : \E ipAddress \in ClassifyIps :
           ClassifyStart(side, ipAddress)
    \/ \E probe \in Probes : \E resp \in ProbeAnswers(cSide, probe) : ProbeMatch(resp)
    \/ \E probe \in Probes : \E resp \in ProbeAnswers(cSide, probe) : ProbeMiss(resp)
    \/ ClassifyNone

(***************************************************************************)
(* Client discoverDevices() of localDeviceService.ts                       *)
(***************************************************************************)
\* retryOperation giving up one failure early
retriesExhausted_OneEarly(retries) == retries <= 1

\* retryOperation: if (retries <= 0) throw, else wait and call again with retries - 1
retriesExhausted(retries) == retries <= 0

\* retries argument of the scan-network request
SCAN_RETRIES == 2

\* the records discoverWithMdnsFallback returns; their ids carry no address
MockDevices ==
    << [id |-> <<"philips-hue-bridge">>, name |-> "Philips Hue Bridge", type |-> "bridge",
        state |-> TRUE, ip |-> <<192, 168, 1, 10>>, protocol |-> "philips-hue"],
       [id |-> <<"philips-wiz-light">>, name |-> "Philips WiZ Light", type |-> "light",
        state |-> FALSE, ip |-> <<192, 168, 1, 15>>, protocol |-> "philips-wiz",
        value |-> 80] >>

\* replies: what GET /scan-network comes back with, a failure or response.data;
\* scans: the non-null results of the scanIpFallback calls, in address order
DiscoverInputs ==
    [replies |-> {[ok |-> FALSE, data |-> << >>]}
                    \cup {[ok |-> TRUE, data |-> list] :
                              list \in {<< >>, <<DevWizOn>>, <<DevFan>>}},
     scans |-> { << >>, <<DevWiz>>, <<DevFan>> }]

\* const mergedDevices = [...cachedDevices]; uniqueDevices.forEach(replace by id or push)
mergedDevices(cachedDevices, newDevices) ==
    LET F[k \in 0..Len(newDevices)] ==
            IF k = 0 THEN cachedDevices
            ELSE LET newDevice == newDevices[k]
                     hits == {i \in 1..Len(F[k - 1]) : F[k - 1][i].id = newDevice.id}
                     existingIndex == IF hits = {} THEN 0
                                      ELSE CHOOSE i \in hits : \A j \in hits : i <= j
                 IN  IF existingIndex > 0
                     THEN [F[k - 1] EXCEPT ![existingIndex] = newDevice]
                     ELSE Append(F[k - 1], newDevice)
    IN  F[Len(newDevices)]

\* the outer catch raising whatever the cache holds
lastResort_Raise(cachedDevices) == [kind |-> "raised", result |-> << >>]

\* the outer catch: return the cached devices if there are any, else throw
lastResort(cachedDevices) ==
    IF Len(cachedDevices) > 0 THEN Returned(cachedDevices)
    ELSE [kind |-> "raised", result |-> << >>]

InitDiscover ==
    /\ dpc = "idle"
    /\ dRetries = SCAN_RETRIES
    /\ dCached = << >>
    /\ dResult = [kind |-> "pending", result |-> << >>]
    /\ dRequests = 0
    /\ dProbed = FALSE
    /\ dBefore = << >>
    /\ dNew = << >>
    /\ dFailed = {}

\* discoverDevices() up to its first await: the fresh-cache check
DiscoverStart ==
    /\ dpc \in {"idle", "done"}
    /\ LET cachedDevices == liveDevices(deviceCache, now) IN
       /\ dBefore' = cachedDevices
       /\ IF recentScan(lastScanTimestamp, now, RECENT_SCAN_MS)
          THEN /\ deviceCache' = evictExpired(deviceCache, now)
               /\ cacheCall' = [op |-> "getAllDevices", ret |-> cachedDevices]
               /\ IF Len(cachedDevices) > 0
                  THEN dpc' = "done" /\ dResult' = Returned(cachedDevices)
                  ELSE dpc' = "request" /\ dResult' = [kind |-> "pending", result |-> << >>]
          ELSE /\ cacheCall' = [op |-> "hasRecentScan", arg |-> RECENT_SCAN_MS,
                                ret |-> FALSE]
               /\ dpc' = "request"
               /\ dResult' = [kind |-> "pending", result |-> << >>]
               /\ UNCHANGED deviceCache
    /\ dRetries' = SCAN_RETRIES
    /\ dCached' = << >>
    /\ dRequests' = 0
    /\ dProbed' = FALSE
    /\ dNew' = << >>
    /\ dFailed' = {}
    /\ UNCHANGED <<lastScanTimestamp, storage, now, tick, putAt, sinceClear>>

\* one call of the operation handed to retryOperation, and what follows it up
\* to the next await; stored = FALSE when localStorage.setItem throws
ScanRequest(reply, stored) ==
    /\ dpc = "request"
    /\ dRequests' = dRequests + 1
    /\ LET saved == cacheEach(deviceCache, reply.data, now)
           \* catch at line 209 up to the await of discoverWithMdnsFallback
           Fallback(m) ==
               /\ dCached' = liveDevices(m, now)
               /\ deviceCache' = evictExpired(m, now)
               /\ cacheCall' = [op |-> "getAllDevices", ret |-> liveDevices(m, now)]
               /\ dpc' = "fallback"
               /\ UNCHANGED <<dResult, dRetries, dNew, storage>>
           Stamped ==
               /\ lastScanTimestamp' = scanStamp(lastScanTimestamp, now)
               /\ putAt' = now
               /\ sinceClear' = "none"
       IN  IF ~reply.ok
           THEN /\ stored
                /\ IF retriesExhausted(dRetries)
                   THEN Fallback(deviceCache) /\ dFailed' = dFailed \cup {"backend"}
                   ELSE /\ dRetries' = dRetries - 1
                        /\ UNCHANGED <<dpc, dCached, dResult, dNew, deviceCache, storage,
                                       cacheCall, dFailed>>
                /\ UNCHANGED <<lastScanTimestamp, putAt, sinceClear>>
           ELSE IF stored
                THEN /\ deviceCache' = saved
                     /\ Stamped
                     /\ storage' = savedItems(saved, lastScanTimestamp')
                     /\ cacheCall' = [op |-> "cacheDevices", arg |-> reply.data]
                     /\ dNew' = reply.data
                     /\ dResult' = Returned(reply.data)
                     /\ dpc' = "done"
                     /\ UNCHANGED <<dRetries, dCached, dFailed>>
                ELSE Stamped /\ Fallback(saved) /\ dFailed' = dFailed \cup {"store"}
    /\ UNCHANGED <<dProbed, dBefore, now, tick>>

\* the browser-compatible discovery from the mock mDNS records to the return
FallbackFinish(scans, stored) ==
    /\ dpc = "fallback"
    /\ LET devices == MockDevices \o scans
           unique == uniqueDevices(devices)
           saved == cacheEach(deviceCache, unique, now)
       IN  /\ dNew' = unique
           /\ lastScanTimestamp' = scanStamp(lastScanTimestamp, now)
           /\ putAt' = now
           /\ sinceClear' = "none"
           /\ IF stored
              THEN /\ deviceCache' = saved
                   /\ storage' = savedItems(saved, lastScanTimestamp')
                   /\ cacheCall' = [op |-> "cacheDevices", arg |-> unique]
                   /\ dResult' = Returned(IF Len(dCached) > 0
                                          THEN mergedDevices(dCached, unique)
                                          ELSE unique)
                   /\ UNCHANGED dFailed
              ELSE /\ deviceCache' = evictExpired(saved, now)
                   /\ cacheCall' = [op |-> "getAllDevices", ret |-> liveDevices(saved, now)]
                   /\ dResult' = lastResort(liveDevices(saved, now))
                   /\ dFailed' = dFailed \cup {"fallback"}
                   /\ UNCHANGED storage
    /\ dProbed' = TRUE
    /\ dpc' = "done"
    /\ UNCHANGED <<dRetries, dCached, dRequests, dBefore, now, tick>>

NextDiscover ==
    \/ DiscoverStart
    \/ \E reply \in DiscoverInputs.replies, stored \in BOOLEAN : ScanRequest(reply, stored)
    \/ \E scans \in DiscoverInputs.scans, stored \in BOOLEAN : FallbackFinish(scans, stored)
    \/ Tick /\ UNCHANGED discoverVars
    \/ UpdateDeviceState(DevFan.id, [state |-> TRUE]) /\ UNCHANGED discoverVars

(***************************************************************************)
(* Protocol handlers (deviceProtocols) and the backend controlDevice       *)
(***************************************************************************)
MAX_RETRIES == 3
RETRY_DELAY == 1000

\* the protocol tags getProtocolHandler has a case for
KnownTags ==
    {"philips-wiz", "philips-hue", "syska", "tuya", "tasmota", "shelly", "havells",
     "wipro", "orient", "crompton", "bajaj"}

\* the handler object getProtocolHandler constructs: its class and, for
\* PhilipsHueProtocol, the username its constructor was given (none)
getProtocolHandler(protocolType) ==
    CASE protocolType = "philips-wiz" -> [class |-> "PhilipsWizProtocol"]
      [] protocolType = "philips-hue" -> [class |-> "PhilipsHueProtocol", username |-> ""]
      [] protocolType = "syska"       -> [class |-> "SyskaProtocol"]
      [] protocolType = "tuya"        -> [class |-> "TuyaProtocol"]
      [] protocolType = "tasmota"     -> [class |-> "TasmotaProtocol"]
      [] protocolType = "shelly"      -> [class |-> "ShellyProtocol"]
      [] protocolType = "havells"     -> [class |-> "HavellsProtocol"]
      [] protocolType = "wipro"       -> [class |-> "WiproProtocol"]
      [] protocolType = "orient"      -> [class |-> "OrientProtocol"]
      [] protocolType = "crompton"    -> [class |-> "CromptonProtocol"]
      [] protocolType = "bajaj"       -> [class |-> "BajajProtocol"]
      [] OTHER                        -> [class |-> "TasmotaProtocol"]

\* a getState whose catch throws the error on
getStateCatch_Rethrow(class) == [raised |-> TRUE, value |-> NoData]

\* the catch clause of getState: four classes rethrow, the others return
\* { state: false }
getStateCatch(class) ==
    IF class \in {"SyskaProtocol", "TuyaProtocol", "ShellyProtocol", "TasmotaProtocol"}
    THEN [raised |-> TRUE, value |-> NoData]
    ELSE [raised |-> FALSE, value |-> [state |-> FALSE]]

\* handler.getState(deviceIp, deviceId), given what its axios.get comes back
\* with.  The try blocks of PhilipsWiz, Syska, Tuya, Shelly and Tasmota only
\* log and return, so nothing in them reaches the catch.
getState(handler, reply) ==
    LET class == handler.class
        data == reply.data
        Is(f, text) == f \in DOMAIN data /\ data[f] = text
        Got(state, value) ==
            [raised |-> FALSE,
             value |-> IF value = Undefined THEN [state |-> state]
                       ELSE [state |-> state, value |-> value]]
        Read(result) ==
            IF ~reply.ok THEN getStateCatch(class)
            ELSE IF data = NoData THEN Got(FALSE, Undefined)
            ELSE result
    IN  CASE class = "PhilipsWizProtocol" -> Got(FALSE, 100)
          [] class = "PhilipsHueProtocol" ->
                IF handler.username = "" THEN getStateCatch(class) ELSE Got(FALSE, 254)
          [] class \in {"SyskaProtocol", "TuyaProtocol", "ShellyProtocol",
                        "TasmotaProtocol"} -> Got(FALSE, Undefined)
          [] class = "HavellsProtocol" ->
                Read(Got(Is("state", "on"),
                         FieldOr(data, "brightness", 0, Field(data, "speed", Undefined))))
          [] class = "WiproProtocol" ->
                Read(Got(Is("power", "on"), Field(data, "brightness", Undefined)))
          [] class = "OrientProtocol" ->
                Read(IF Is("type", "fan")
                     THEN Got(Is("power", "on"), Field(data, "speed", Undefined))
                     ELSE IF Is("type", "ac")
                     THEN Got(Is("power", "on"), Field(data, "temperature", Undefined))
                     ELSE Got(Is("power", "on"), Undefined))
          [] class = "CromptonProtocol" ->
                Read(IF Is("type", "light")
                     THEN Got(Is("state", "on"), Field(data, "brightness", Undefined))
                     ELSE IF Is("type", "fan")
                     THEN Got(Is("state", "on"), Field(data, "speed", Undefined))
                     ELSE Got(Is("state", "on"), Undefined))
          [] class = "BajajProtocol" ->
                Read(IF Is("type", "fan")
                     THEN Got(Is("status", "on"), Field(data, "speed", Undefined))
                     ELSE Got(Is("status", "on"), Undefined))

\* handler.setState(deviceIp, deviceId, state), given what its axios.post
\* comes back with; every class catches and returns false
setState(handler, reply) ==
    CASE handler.class \in {"PhilipsWizProtocol", "SyskaProtocol", "TuyaProtocol",
                            "ShellyProtocol", "TasmotaProtocol"} -> TRUE
      [] handler.class = "PhilipsHueProtocol" -> handler.username # ""
      [] OTHER -> reply.ok /\ reply.status = 200

\* handler.setProperty(deviceIp, deviceId, property, value)
setProperty(handler, property, reply) ==
    CASE handler.class \in {"PhilipsWizProtocol", "SyskaProtocol", "TuyaProtocol"} -> TRUE
      [] handler.class = "PhilipsHueProtocol" ->
            handler.username # "" /\ property \in {"brightness", "hue", "saturation", "ct"}
      [] handler.class = "ShellyProtocol" -> property \in {"brightness", "color"}
      [] handler.class = "TasmotaProtocol" ->
            property \in {"brightness", "color", "temperature", "speed"}
      [] OTHER -> reply.ok /\ reply.status = 200

\* the body handler.setProperty builds for the device before it sends or logs
\* it: the HTTP handlers post { [property]: value }, PhilipsHue scales a
\* percentage to 0..254 with Math.round((value / 100) * 254), and the other
\* handlers only log the value
setPropertyPayload(handler, property, value) ==
    CASE handler.class = "PhilipsHueProtocol" ->
            IF handler.username = "" THEN [built |-> FALSE]
            ELSE IF property = "brightness"
            THEN [built |-> TRUE, data |-> [bri |-> (value * 254 + 50) \div 100]]
            ELSE IF property = "saturation"
            THEN [built |-> TRUE, data |-> [sat |-> (value * 254 + 50) \div 100]]
            ELSE IF property \in {"hue", "ct"}
            THEN [built |-> TRUE, data |-> [f \in {property} |-> value]]
            ELSE [built |-> FALSE]
      [] handler.class \in {"HavellsProtocol", "WiproProtocol", "OrientProtocol",
                            "CromptonProtocol", "BajajProtocol"} ->
            [built |-> TRUE, data |-> [f \in {property} |-> value]]
      [] OTHER -> [built |-> FALSE]

\* the switch of controlDevice: the endpoint and the body it posts, or
\* supported = FALSE where the default case throws
controlRequest(deviceIp, deviceId, protocol, action, params) ==
    LET onOff == IF Field(params, "state", FALSE) = TRUE THEN "on" ELSE "off"
        value == Field(params, "value", Undefined)
        Post(path, data) ==
            [supported |-> TRUE, endpoint |-> <<"http://", deviceIp>> \o path, data |-> data]
        Body(stateField, valueActions) ==
            IF action = "setState" THEN [f \in {stateField} |-> onOff]
            ELSE IF action \in DOMAIN valueActions
            THEN [f \in {valueActions[action]} |-> value]
            ELSE NoData
        Dimmer == [setBrightness |-> "brightness"]
        Both == [setBrightness |-> "brightness", setSpeed |-> "speed"]
    IN  CASE protocol = "philips-wiz" ->
                Post(<<"/api">> \o (IF action = "setState" THEN <<"/setState">>
                                    ELSE IF action = "setBrightness" THEN <<"/dimming">>
                                    ELSE << >>),
                     Body("state", Dimmer))
          [] protocol = "philips-hue" ->
                Post(<<"/api/", Field(params, "username", Undefined), "/lights/",
                       decimal(deviceId[2][4]), "/state">>,
                     IF action = "setState" THEN [on |-> Field(params, "state", Undefined)]
                     ELSE IF action = "setBrightness" THEN [bri |-> value]
                     ELSE NoData)
          [] protocol = "syska" -> Post(<<"/api/v1/device/control">>, Body("power", Dimmer))
          [] protocol = "tasmota" ->
                Post(<<"/cm">>,
                     IF action = "setState"
                     THEN [cmnd |-> <<"Power ", IF onOff = "on" THEN "On" ELSE "Off">>]
                     ELSE IF action = "setBrightness" THEN [cmnd |-> <<"Dimmer ", value>>]
                     ELSE NoData)
          [] protocol = "havells" -> Post(<<"/api/control">>, Body("state", Dimmer))
          [] protocol = "wipro" -> Post(<<"/system/control">>, Body("power", Dimmer))
          [] protocol = "orient" ->
                Post(<<"/api/control">>,
                     Body("power", [setSpeed |-> "speed", setTemperature |-> "temperature"]))
          [] protocol = "crompton" -> Post(<<"/device/control">>, Body("state", Both))
          [] protocol = "bajaj" -> Post(<<"/api/device/control">>, Body("status", Both))
          [] OTHER -> [supported |-> FALSE, endpoint |-> << >>, data |-> NoData]

\* what controlDevice's try block comes to, given what the device answers to
\* the POST: the value it returns, or the message of the error thrown in it
\* (by the switch's default, by deviceId.split of a missing deviceId, by axios)
controlAttempt(deviceIp, deviceId, protocol, action, params, reply) ==
    IF protocol = "philips-hue" /\ deviceId = << >>
    THEN [threw |-> TRUE, message |-> <<"Cannot read properties of undefined">>,
          sent |-> FALSE]
    ELSE IF ~controlRequest(deviceIp, deviceId, protocol, action, params).supported
    THEN [threw |-> TRUE, message |-> <<"Unsupported protocol: ", protocol>>, sent |-> FALSE]
    ELSE IF ~reply.ok
    THEN [threw |-> TRUE, sent |-> TRUE,
          message |-> IF reply.status = 0 THEN <<"timeout of 3000ms exceeded">>
                      ELSE <<"Request failed with status code ", reply.status>>]
    ELSE [threw |-> FALSE, sent |-> TRUE, data |-> reply.data]

\* a controlDevice whose catch throws the error on
controlDevice_Rethrow(deviceIp, deviceId, protocol, action, params, reply) ==
    LET attempt == controlAttempt(deviceIp, deviceId, protocol, action, params, reply)
    IN  IF attempt.threw THEN [kind |-> "raised", result |-> [error |-> attempt.message]]
        ELSE Returned([success |-> TRUE, data |-> attempt.data])

\* controlDevice(deviceIp, deviceId, protocol, action, params), given what
\* the device answers to the POST: try { ... return { success: true, data } }
\* catch (error) { return { success: false, error: error.message } }
controlDevice(deviceIp, deviceId, protocol, action, params, reply) ==
    LET attempt == controlAttempt(deviceIp, deviceId, protocol, action, params, reply)
    IN  IF attempt.threw THEN Returned([success |-> FALSE, error |-> attempt.message])
        ELSE Returned([success |-> TRUE, data |-> attempt.data])

(***************************************************************************)
(* Client toggleDevice / updateDeviceState of localDeviceService.ts        *)
(***************************************************************************)
\* the devices the control functions are called with, the params of
\* updateDeviceState, the answers of a device to a POST or GET, and the bodies
\* POSTed to /api/device/control: what toggleDevice and updateDeviceState send
\* for a device, and the same with one field left out or an empty deviceIp
ControlInputs ==
    LET Devices ==
        { Spread(DevWiz, [name |-> "Philips WiZ Light", type |-> "light",
                          protocol |-> "philips-wiz"]),
          [id |-> MkId("philips-hue", <<192, 168, 1, 10>>), ip |-> <<192, 168, 1, 10>>,
           name |-> "Hue Light", type |-> "light", state |-> FALSE,
           protocol |-> "philips-hue"],
          [id |-> MkId("havells", <<192, 168, 1, 30>>), ip |-> <<192, 168, 1, 30>>,
           name |-> "Havells Fan", type |-> "fan", state |-> FALSE, value |-> 2,
           protocol |-> "havells"],
          [id |-> MkId("unknown", <<192, 168, 1, 40>>), ip |-> <<192, 168, 1, 40>>,
           name |-> "Lamp", type |-> "light", state |-> FALSE, protocol |-> "zigbee"],
          Spread(DevFan, [name |-> "Fan", type |-> "fan"]) }
        Sent(device, action, params) ==
            [deviceIp |-> device.ip, deviceId |-> device.id, protocol |-> device.protocol,
             action |-> action, params |-> params]
        Tagged == {d \in Devices : "protocol" \in DOMAIN d}
        Full == {Sent(device, "setState", [state |-> TRUE]) : device \in Tagged}
                  \cup {Sent(device, IF device.type = "fan" THEN "setSpeed"
                                     ELSE "setBrightness", [value |-> 50]) :
                            device \in Tagged}
        Without(body, field) == [f \in DOMAIN body \ {field} |-> body[f]]
    IN
    [devices |-> Devices,
     bodies |-> Full \cup {Without(body, field) :
                              body \in Full,
                              field \in {"deviceIp", "deviceId", "protocol", "action"}}
                     \cup {[body EXCEPT !.deviceIp = << >>] : body \in Full},
     params |-> { [value |-> 50], [temperature |-> 24] },
     replies |-> { [ok |-> FALSE, status |-> 0, data |-> NoData],
                   [ok |-> TRUE, status |-> 200, data |-> NoData],
                   [ok |-> TRUE, status |-> 204, data |-> NoData] },
     reads |-> { Failed, Answer(NoData),
                 Answer([state |-> "on", brightness |-> 70]),
                 Answer([state |-> "off", speed |-> 2]),
                 Answer([state |-> "on", type |-> "fan", speed |-> 4]),
                 Answer([power |-> "on", type |-> "fan", speed |-> 3]),
                 Answer([power |-> "on", type |-> "ac", temperature |-> 24]),
                 Answer([status |-> "on", type |-> "fan", speed |-> 1]),
                 Answer([status |-> "off", type |-> "light"]) }]

\* let action = 'setProperty'; if ('value' in params) ... else if ('temperature' in params)
controlAction(device, params) ==
    IF "value" \in DOMAIN params
    THEN IF device.type = "light" THEN "setBrightness"
         ELSE IF device.type = "fan" THEN "setSpeed"
         ELSE "setProperty"
    ELSE IF "temperature" \in DOMAIN params THEN "setTemperature"
    ELSE "setProperty"

\* Object.entries(params), for the one-property params the callers pass
entries(params) ==
    LET property == CHOOSE f \in DOMAIN params : TRUE
    IN  << [property |-> property, value |-> params[property]] >>

\* an outer catch that throws the error on
controlCatch_Rethrow == [kind |-> "raised", value |-> FALSE]

\* the outer catch of toggleDevice and updateDeviceState: return false
controlCatch == [kind |-> "resolved", value |-> FALSE]

InitControl ==
    /\ kpc = "idle"
    /\ kReq = [fn |-> "none"]
    /\ kRetries = MAX_RETRIES
    /\ kProps = << >>
    /\ kSuccess = TRUE
    /\ kCalls = << >>
    /\ kFailed = {}
    /\ kResult = [kind |-> "pending", value |-> FALSE]
    /\ hState = [protocol |-> "none"]
    /\ rCall = [status |-> 0]
    /\ pCall = [property |-> "none"]
    /\ retry = [pc |-> "idle", given |-> 0, retries |-> 0, delay |-> 0, log |-> << >>,
                 waited |-> 0, result |-> [kind |-> "pending"]]
    /\ tab = [mounted |-> FALSE, instance |-> 0, isLoading |-> FALSE,
               scanInProgress |-> FALSE, scanCompleted |-> FALSE, error |-> "null",
               initialLoadComplete |-> FALSE, found |-> 0, calls |-> << >>]

\* a test that lets the cache update run whatever was reported
reported_Ignored(success) == TRUE

\* if (response.data.success) / if (success): the test guarding
\* deviceCache.updateDeviceState in both functions, on both paths
reported(success) == success

\* a start that takes every device to the backend request
ControlStart_NoCheck(fn, device, arg) ==
    /\ kpc = "idle"
    /\ kReq' = [fn |-> fn, device |-> device,
                action |-> IF fn = "toggleDevice" THEN "setState"
                           ELSE controlAction(device, arg),
                params |-> arg]
    /\ kRetries' = MAX_RETRIES
    /\ kProps' = << >>
    /\ kSuccess' = TRUE
    /\ kCalls' = << >>
    /\ kFailed' = {}
    /\ kpc' = "backend" /\ kResult' = [kind |-> "pending", value |-> FALSE]
    /\ UNCHANGED <<hState, rCall, pCall, retry, tab, cacheVars>>

\* toggleDevice(device, newState) / updateDeviceState(device, params) up to
\* the first await
ControlStart(fn, device, arg) ==
    /\ kpc = "idle"
    /\ kReq' = [fn |-> fn, device |-> device,
                action |-> IF fn = "toggleDevice" THEN "setState"
                           ELSE controlAction(device, arg),
                params |-> arg]
    /\ kRetries' = MAX_RETRIES
    /\ kProps' = << >>
    /\ kSuccess' = TRUE
    /\ kCalls' = << >>
    /\ kFailed' = {}
    /\ IF Field(device, "protocol", "") = ""
       THEN kpc' = "done" /\ kResult' = [kind |-> "resolved", value |-> FALSE]
       ELSE kpc' = "backend" /\ kResult' = [kind |-> "pending", value |-> FALSE]
    /\ UNCHANGED <<hState, cacheVars>>
    /\ UNCHANGED <<rCall, pCall, retry, tab>>

\* one POST /device/control through retryOperation and what follows it up to
\* the next await.  served = FALSE: the request fails; otherwise the backend
\* answers with the result of controlDevice, reply being the device's answer
\* to it.  stored = FALSE: localStorage.setItem throws.
BackendCall(served, reply, stored) ==
    /\ kpc = "backend"
    /\ LET device == kReq.device
           response == controlDevice(device.ip, device.id, device.protocol, kReq.action,
                                     kReq.params, reply).result
           called == Append(kCalls, [to |-> "backend", ms |-> 0, served |-> served,
                                     accepted |-> served /\ reply.ok,
                                     success |-> served /\ response.success])
           cached == MapHas(deviceCache, device.id)
           \* catch: getProtocolHandler, then the first call of the handler
           Direct ==
               /\ kpc' = "direct"
               /\ kRetries' = MAX_RETRIES
               /\ kProps' = IF kReq.fn = "toggleDevice" THEN << >> ELSE entries(kReq.params)
               /\ UNCHANGED kResult
       IN  IF ~served
           THEN /\ stored /\ ~reply.ok
                /\ IF retriesExhausted(kRetries)
                   THEN /\ Direct
                        /\ kCalls' = called
                        /\ kFailed' = kFailed \cup {"backend"}
                   ELSE /\ kRetries' = kRetries - 1
                        /\ kCalls' = Append(called, [to |-> "timer", ms |-> RETRY_DELAY,
                                                     served |-> FALSE, accepted |-> FALSE,
                                                     success |-> FALSE])
                        /\ UNCHANGED <<kpc, kProps, kResult, kFailed>>
                /\ UNCHANGED cacheVars
           ELSE /\ kCalls' = called
                /\ IF ~reported(response.success)
                   THEN /\ stored
                        /\ kpc' = "done"
                        /\ kResult' = [kind |-> "resolved", value |-> FALSE]
                        /\ UNCHANGED <<kRetries, kProps, kFailed, cacheVars>>
                   ELSE /\ deviceCache' = patchedMap(deviceCache, device.id, kReq.params, now)
                        /\ cacheCall' = [op |-> "updateDeviceState", arg |-> device.id,
                                         updates |-> kReq.params, ret |-> cached]
                        /\ UNCHANGED <<lastScanTimestamp, now, tick, putAt, sinceClear>>
                        /\ IF cached /\ ~stored
                           THEN /\ Direct
                                /\ kFailed' = kFailed \cup {"store"}
                                /\ UNCHANGED storage
                           ELSE /\ stored
                                /\ storage' = IF cached
                                              THEN savedItems(deviceCache', lastScanTimestamp)
                                              ELSE storage
                                /\ kpc' = "done"
                                /\ kResult' = [kind |-> "resolved", value |-> TRUE]
                                /\ UNCHANGED <<kRetries, kProps, kFailed>>
    /\ UNCHANGED <<kReq, kSuccess, hState>>
    /\ UNCHANGED <<rCall, pCall, retry, tab>>

\* one call of the direct handler through retryOperation and what follows it:
\* setState for toggleDevice, setProperty for the next entry of params
DirectCall(reply, stored) ==
    /\ kpc = "direct"
    /\ LET device == kReq.device
           protocolHandler == getProtocolHandler(device.protocol)
           ok == IF kReq.fn = "toggleDevice" THEN setState(protocolHandler, reply)
                 ELSE setProperty(protocolHandler, Head(kProps).property, reply)
           success == kSuccess /\ ok
           last == kReq.fn = "toggleDevice" \/ Len(kProps) = 1
           cached == MapHas(deviceCache, device.id)
       IN  /\ kCalls' = Append(kCalls, [to |-> "handler", ms |-> 0, served |-> TRUE,
                                        accepted |-> reply.ok, success |-> ok])
           /\ kSuccess' = success
           /\ kProps' = IF kProps = << >> THEN kProps ELSE Tail(kProps)
           /\ IF ~last
              THEN /\ stored
                   /\ UNCHANGED <<kpc, kResult, kFailed, cacheVars>>
              ELSE /\ kpc' = "done"
                   /\ IF ~reported(success)
                      THEN /\ stored
                           /\ kResult' = [kind |-> "resolved", value |-> FALSE]
                           /\ UNCHANGED <<kFailed, cacheVars>>
                      ELSE /\ deviceCache' = patchedMap(deviceCache, device.id, kReq.params,
                                                        now)
                           /\ cacheCall' = [op |-> "updateDeviceState", arg |-> device.id,
                                            updates |-> kReq.params, ret |-> cached]
                           /\ UNCHANGED <<lastScanTimestamp, now, tick, putAt, sinceClear>>
                           /\ IF cached /\ ~stored
                              THEN /\ kResult' = controlCatch
                                   /\ kFailed' = kFailed \cup {"direct-store"}
                                   /\ UNCHANGED storage
                              ELSE /\ stored
                                   /\ storage' = IF cached
                                                 THEN savedItems(deviceCache',
                                                                 lastScanTimestamp)
                                                 ELSE storage
                                   /\ kResult' = [kind |-> "resolved", value |-> TRUE]
                                   /\ UNCHANGED kFailed
    /\ UNCHANGED <<kReq, kRetries, hState>>
    /\ UNCHANGED <<rCall, pCall, retry, tab>>

\* getProtocolHandler(protocol).getState(ip, id)
GetState(protocol, reply) ==
    /\ hState' = [protocol |-> protocol, reply |-> reply,
                  result |-> getState(getProtocolHandler(protocol), reply)]
    /\ UNCHANGED <<kpc, kReq, kRetries, kProps, kSuccess, kCalls, kFailed, kResult,
                   cacheVars>>
    /\ UNCHANGED <<rCall, pCall, retry, tab>>

\* app.post('/api/device/control', ...): the request body, and what the device
\* answers if a command is sent to it
PostControl(body, reply) ==
    /\ LET deviceIp == Field(body, "deviceIp", << >>)
           deviceId == Field(body, "deviceId", << >>)
           protocol == Field(body, "protocol", "")
           action == Field(body, "action", "")
           params == Field(body, "params", NoData)
           outcome == controlDevice(deviceIp, deviceId, protocol, action, params, reply)
           attempt == controlAttempt(deviceIp, deviceId, protocol, action, params, reply)
       IN  rCall' =
               IF deviceIp = << >> \/ protocol = "" \/ action = ""
               THEN [body |-> body, status |-> 400, called |-> FALSE, sent |-> FALSE,
                     json |-> [error |-> <<"Missing required parameters">>]]
               ELSE IF outcome.kind = "raised"
               THEN [body |-> body, status |-> 500, called |-> TRUE, sent |-> attempt.sent,
                     json |-> [error |-> <<"Failed to control device">>]]
               ELSE [body |-> body, status |-> 200, called |-> TRUE, sent |-> attempt.sent,
                     reply |-> reply, json |-> outcome.result]
    /\ UNCHANGED <<kpc, kReq, kRetries, kProps, kSuccess, kCalls, kFailed, kResult, hState,
                   pCall, retry, tab, cacheVars>>

\* handler.setProperty(deviceIp, deviceId, property, value) of a handler
SetProperty(handler, property, value, reply) ==
    /\ pCall' = [handler |-> handler, property |-> property, value |-> value,
                 payload |-> setPropertyPayload(handler, property, value),
                 result |-> setProperty(handler, property, reply)]
    /\ UNCHANGED <<kpc, kReq, kRetries, kProps, kSuccess, kCalls, kFailed, kResult, hState,
                   rCall, retry, tab, cacheVars>>

NextControl ==
    \/ \E device \in ControlInputs.devices, newState \in BOOLEAN :
           ControlStart("toggleDevice", device, [state |-> newState])
    \/ \E device \in ControlInputs.devices, params \in ControlInputs.params :
           ControlStart("updateDeviceState", device, params)
    \/ \E served \in BOOLEAN, reply \in ControlInputs.replies, stored \in BOOLEAN :
           BackendCall(served, reply, stored)
    \/ \E reply \in ControlInputs.replies, stored \in BOOLEAN : DirectCall(reply, stored)
    \/ /\ kpc = "idle"
       /\ \E wiz, fan \in ControlInputs.devices :
              /\ Field(wiz, "protocol", "") = "philips-wiz"
              /\ Field(fan, "protocol", "") = "havells"
              /\ CacheDevices(<<wiz, fan>>)
       /\ UNCHANGED controlVars

(***************************************************************************)
(* retryOperation (localDeviceService)                                     *)
(***************************************************************************)
\* what one invocation of the operation comes to: a thrown error with its
\* message, or a returned value (the boolean of a handler call)
RetryInputs ==
    [given |-> 0..3,
     delays |-> {1000, 2000},
     outcomes |-> {[threw |-> TRUE, message |-> msg] : msg \in {"timeout", "refused"}}
                     \cup {[threw |-> FALSE, value |-> v] : v \in BOOLEAN}]

\* retryOperation(operation, retries, delay, errorMessage) is called
RetryStart(retries, delay) ==
    /\ retry.pc \in {"idle", "done"}
    /\ retry' = [pc |-> "call", given |-> retries, retries |-> retries, delay |-> delay,
                 log |-> << >>, waited |-> 0, result |-> [kind |-> "pending"]]
    /\ UNCHANGED <<kpc, kReq, kRetries, kProps, kSuccess, kCalls, kFailed, kResult, hState,
                   rCall, pCall, tab, cacheVars>>

\* an invocation that goes on to the delay whatever the operation came to
RetryInvoke_RetryOnFalse(outcome) ==
    /\ retry.pc = "call"
    /\ retry' = IF outcome.threw \/ outcome.value = FALSE
                THEN IF retriesExhausted(retry.retries)
                     THEN [retry EXCEPT !.pc = "done", !.log = Append(@, outcome),
                                        !.result = [kind |-> "raised"]]
                     ELSE [retry EXCEPT !.pc = "wait", !.log = Append(@, outcome)]
                ELSE [retry EXCEPT !.pc = "done", !.log = Append(@, outcome),
                                   !.result = [kind |-> "returned", value |-> outcome.value]]
    /\ UNCHANGED <<kpc, kReq, kRetries, kProps, kSuccess, kCalls, kFailed, kResult, hState,
                   rCall, pCall, tab, cacheVars>>

\* try { return await operation(); } catch (error) { if (retries <= 0) throw ...; warn }
RetryInvoke(outcome) ==
    /\ retry.pc = "call"
    /\ retry' = IF ~outcome.threw
                THEN [retry EXCEPT !.pc = "done", !.log = Append(@, outcome),
                                   !.result = [kind |-> "returned", value |-> outcome.value]]
                ELSE IF retriesExhausted(retry.retries)
                THEN [retry EXCEPT !.pc = "done", !.log = Append(@, outcome),
                                   !.result = [kind |-> "raised", message |-> outcome.message]]
                ELSE [retry EXCEPT !.pc = "wait", !.log = Append(@, outcome)]
    /\ UNCHANGED <<kpc, kReq, kRetries, kProps, kSuccess, kCalls, kFailed, kResult, hState,
                   rCall, pCall, tab, cacheVars>>

\* await new Promise(resolve => setTimeout(resolve, delay));
\* return retryOperation(operation, retries - 1, delay, errorMessage);
RetryTimer ==
    /\ retry.pc = "wait"
    /\ retry' = [retry EXCEPT !.pc = "call", !.retries = @ - 1,
                              !.waited = @ + retry.delay]
    /\ UNCHANGED <<kpc, kReq, kRetries, kProps, kSuccess, kCalls, kFailed, kResult, hState,
                   rCall, pCall, tab, cacheVars>>

(***************************************************************************)
(* LocalDevicesTab: loadDevices and the scan flags                         *)
(***************************************************************************)
\* how many times the Dashboard mounts the tab in a run
MaxMounts == 4

\* loadDevices() up to its await, on the state t of the instance that runs it:
\* the scanInProgress test, the four setters, the call of discoverDevices()
loadDevices(t) ==
    IF t.scanInProgress
    THEN [t EXCEPT !.error = "busy"]
    ELSE [t EXCEPT !.isLoading = TRUE, !.scanInProgress = TRUE, !.error = "null",
                   !.scanCompleted = FALSE, !.calls = Append(@, t.instance)]

\* the Dashboard renders <LocalDevicesTab /> (activeTab becomes 'local'): a new
\* instance with the initial state, whose mount effect calls loadDevices()
TabMount ==
    /\ ~tab.mounted
    /\ tab.instance < MaxMounts
    /\ LET fresh == [mounted |-> TRUE, instance |-> tab.instance + 1, isLoading |-> FALSE,
                     scanInProgress |-> FALSE, scanCompleted |-> FALSE, error |-> "null",
                     initialLoadComplete |-> FALSE, found |-> 0, calls |-> tab.calls]
       IN  tab' = [loadDevices(fresh) EXCEPT !.initialLoadComplete = TRUE]
    /\ UNCHANGED <<kpc, kReq, kRetries, kProps, kSuccess, kCalls, kFailed, kResult, hState,
                   rCall, pCall, retry, cacheVars>>

\* activeTab leaves 'local': the instance is unmounted, its calls stay pending
TabUnmount ==
    /\ tab.mounted
    /\ tab' = [tab EXCEPT !.mounted = FALSE]
    /\ UNCHANGED <<kpc, kReq, kRetries, kProps, kSuccess, kCalls, kFailed, kResult, hState,
                   rCall, pCall, retry, cacheVars>>

\* a click on Scan Network (rendered outside the loading view, disabled while
\* isLoading || scanInProgress) or on Try Again (rendered when no device was
\* found): handleScanNetwork calls loadDevices()
handleScanNetwork ==
    /\ tab.mounted
    /\ ~(tab.isLoading /\ ~tab.scanCompleted)
    /\ \/ ~(tab.isLoading \/ tab.scanInProgress)
       \/ (tab.found = 0 /\ ~tab.isLoading /\ tab.scanCompleted)
    /\ tab' = loadDevices(tab)
    /\ UNCHANGED <<kpc, kReq, kRetries, kProps, kSuccess, kCalls, kFailed, kResult, hState,
                   rCall, pCall, retry, cacheVars>>

\* the k-th pending discoverDevices() settles: the rest of loadDevices (try,
\* catch, finally) runs for the instance that made the call; the setters of
\* an instance that is no longer mounted change nothing
ScanSettle(k, outcome) ==
    /\ k \in 1..Len(tab.calls)
    /\ LET rest == SubSeq(tab.calls, 1, k - 1) \o SubSeq(tab.calls, k + 1, Len(tab.calls))
       IN  tab' = IF tab.mounted /\ tab.calls[k] = tab.instance
                  THEN [tab EXCEPT !.found = IF outcome.ok THEN outcome.count ELSE @,
                                   !.error = IF outcome.ok THEN @ ELSE "failed",
                                   !.scanCompleted = TRUE,
                                   !.isLoading = FALSE,
                                   !.scanInProgress = FALSE,
                                   !.calls = rest]
                  ELSE [tab EXCEPT !.calls = rest]
    /\ UNCHANGED <<kpc, kReq, kRetries, kProps, kSuccess, kCalls, kFailed, kResult, hState,
                   rCall, pCall, retry, cacheVars>>

(***************************************************************************)
(* Specifications                                                          *)
(***************************************************************************)
Init == InitCache /\ InitBackend /\ InitClassify /\ InitDiscover /\ InitControl

CacheOnly == NextCache /\ UNCHANGED <<backendVars, classifyVars, discoverVars, controlVars>>

SpecCache == Init /\ [][CacheOnly]_vars

BackendOnly ==
    NextBackend /\ UNCHANGED <<cacheVars, classifyVars, discoverVars, controlVars>>

SpecBackend == Init /\ [][BackendOnly]_vars

\* the same with the timer of discoverWithMdns: setTimeout(..., 3000) is set
\* when the listener starts and nothing clears it, so the event loop runs its
\* callback once the 3 s have passed
SpecBackendLive ==
    /\ Init
    /\ [][BackendOnly]_vars
    /\ WF_vars(MdnsTimeout
                  /\ UNCHANGED <<cacheVars, classifyVars, discoverVars, controlVars>>)

ClassifyOnly ==
    NextClassify /\ UNCHANGED <<cacheVars, backendVars, discoverVars, controlVars>>

SpecClassify == Init /\ [][ClassifyOnly]_vars

\* the client discoverDevices() over its cache
DiscoverOnly == NextDiscover /\ UNCHANGED <<backendVars, classifyVars, controlVars>>

SpecDiscover == Init /\ [][DiscoverOnly]_vars

\* the client control functions and the handlers' getState
ControlOnly == NextControl /\ UNCHANGED <<backendVars, classifyVars, discoverVars>>

SpecControl == Init /\ [][ControlOnly]_vars

\* the calls that keep no state between them: getState of the handler of every
\* protocol tag, known or not, and the backend's POST /api/device/control
HandlersOnly ==
    /\ \/ \E protocol \in KnownTags \cup {"zigbee"}, reply \in ControlInputs.reads :
              GetState(protocol, reply)
       \/ \E body \in ControlInputs.bodies,
             reply \in ControlInputs.replies
                          \cup {[ok |-> FALSE, status |-> 500, data |-> NoData]} :
              PostControl(body, reply)
    /\ UNCHANGED <<backendVars, classifyVars, discoverVars>>

SpecHandlers == Init /\ [][HandlersOnly]_vars

\* setProperty of the handler of every known tag, and of a PhilipsHueProtocol
\* constructed with the username of a bridge, for values inside and outside
\* the percentage range
SpecSetProperty ==
    Init /\ [][/\ \E handler \in {getProtocolHandler(tag) : tag \in KnownTags}
                                   \cup {[class |-> "PhilipsHueProtocol",
                                          username |-> "bridge-user"]},
                     property \in {"brightness", "value", "speed"},
                     value \in {0, 50, 150},
                     reply \in ControlInputs.replies :
                      SetProperty(handler, property, value, reply)
                /\ UNCHANGED <<backendVars, classifyVars, discoverVars>>]_vars

\* one call of retryOperation after the other
RetryOnly ==
    /\ \/ \E retries \in RetryInputs.given, delay \in RetryInputs.delays :
              RetryStart(retries, delay)
       \/ \E outcome \in RetryInputs.outcomes : RetryInvoke(outcome)
       \/ RetryTimer
    /\ UNCHANGED <<backendVars, classifyVars, discoverVars>>

\* the operation settles (the requests carry a timeout) and the event loop
\* runs the timer's callback
SpecRetryLive ==
    /\ Init /\ [][RetryOnly]_vars
    /\ WF_vars(RetryTimer /\ UNCHANGED <<backendVars, classifyVars, discoverVars>>)
    /\ WF_vars((\E outcome \in RetryInputs.outcomes : RetryInvoke(outcome))
                  /\ UNCHANGED <<backendVars, classifyVars, discoverVars>>)

\* the tab mounted and unmounted by the Dashboard, its button, and its
\* discoverDevices() calls returning a list of 0 or 2 devices or throwing
TabOnly ==
    /\ \/ TabMount
       \/ TabUnmount
       \/ handleScanNetwork
       \/ \E k \in 1..MaxMounts,
             outcome \in {[ok |-> FALSE]} \cup {[ok |-> TRUE, count |-> c] : c \in {0, 2}} :
              ScanSettle(k, outcome)
    /\ UNCHANGED <<backendVars, classifyVars, discoverVars>>

SpecTab == Init /\ [][TabOnly]_vars

(***************************************************************************)
(* Claims about the backend discoverDevices(), checked under SpecBackend    *)
(***************************************************************************)
\* the records the probe stage pushed: devices holds the mDNS records first
ActiveRecords == SubSeq(bDevices, Len(mdnsDevices) + 1, Len(bDevices))

\* C1: the list discoverDevices() returns never holds two devices with the
\* same ip, whatever the mDNS stage and the probe stage pushed.
C1_UniqueByIp ==
    bOutcome.kind = "returned" =>
        \A i, j \in 1..Len(bOutcome.result) :
            i # j => bOutcome.result[i].ip # bOutcome.result[j].ip

\* a pass whose devices array held a duplicate address and which returned
\* a non-empty list
C1_Witness ==
    /\ bpc = "done"
    /\ bOutcome.kind = "returned"
    /\ \E i, j \in 1..Len(bDevices) : i # j /\ bDevices[i].ip = bDevices[j].ip
    /\ Len(bOutcome.result) > 0

\* C2: when the mDNS stage and the probe stage both produced a record for an
\* address, the record for that address in the returned list is the one the
\* probe stage produced.
C2_ActiveWins ==
    (bpc = "done" /\ bOutcome.kind = "returned") =>
        \A k \in 1..Len(bOutcome.result) :
            LET address == bOutcome.result[k].ip IN
            ( /\ \E p \in 1..Len(mdnsDevices) : mdnsDevices[p].ip = address
              /\ \E a \in 1..Len(ActiveRecords) : ActiveRecords[a].ip = address )
            => bOutcome.result[k] \in Range(ActiveRecords)

\* C3: the loop of discoverDevices walks at most 100 candidate addresses,
\* for every local address and subnet mask.
C3_WalkAtMostCap == walked <= 100

\* C4: the host's own address is never handed to pingIp and never handed to
\* scanIp, for every local address and subnet mask.
C4_OwnAddressUntouched ==
    /\ networkInfo.localIp \notin pinged
    /\ networkInfo.localIp \notin scanned

\* a finished pass whose range held the host's own address, with other
\* addresses pinged and classified
C4_Witness ==
    /\ bpc = "done"
    /\ bOutcome.kind = "returned"
    /\ networkInfo.localIp # << >>
    /\ LongLeq(toLong(ipRange.start), toLong(networkInfo.localIp))
    /\ LongLeq(toLong(networkInfo.localIp), toLong(ipRange.end))
    /\ walked > Cardinality(pinged)
    /\ scanned # {}

\* C5: discoverDevices() never raises. Whatever fails (the listener, the
\* network-info resolution, a ping, a probe), every pass that has started can
\* go on until it has returned a list; the list is empty when the listener or
\* the network-info resolution failed, and when neither stage found a device.
C5_NeverRaises ==
    /\ bOutcome.kind # "raised"
    /\ bpc = "done" => bOutcome.kind = "returned"
    /\ bpc \notin {"idle", "done"} => ENABLED NextBackend
    /\ (bpc = "done" /\ bFailed \cap {"listener", "netinfo"} # {})
           => bOutcome.result = << >>
    /\ (bpc = "done" /\ mdnsDevices = << >> /\ Len(ActiveRecords) = 0)
           => bOutcome.result = << >>

\* a pass in which a ping command and a probe request failed, and which
\* returned its list
C5_Witness ==
    /\ bpc = "done"
    /\ bOutcome.kind = "returned"
    /\ {"ping", "probe"} \subseteq bFailed

(***************************************************************************)
(* Claims about scanIp and scanIpFallback, checked under SpecClassify       *)
(***************************************************************************)
\* the responses received so far, by probe
ResponseOf == [p \in Range(cLog) |-> cResponses[CHOOSE i \in 1..Len(cLog) : cLog[i] = p]]

\* whether the i-th probe issued matched
MatchedAt(i) == detectOn(cSide, cLog[i], cIp, cResponses[i]) # Null

\* C6: for one address the probes are issued in the order WiZ, Hue, Syska,
\* Tasmota, Tuya, Havells, Wipro, Orient, Crompton, Bajaj, by scanIp and by
\* scanIpFallback alike; no probe is issued after one that matched; the value
\* returned is the device of the first probe that matched, and null when all
\* ten were issued and none matched.
C6_FirstMatchInFixedOrder ==
    /\ cLog = SubSeq(<<"wiz", "hue", "syska", "tasmota", "tuya", "havells", "wipro",
                       "orient", "crompton", "bajaj">>, 1, Len(cLog))
    /\ \A i \in 1..(Len(cLog) - 1) : ~MatchedAt(i)
    /\ cpc = "done" =>
           IF Len(cLog) > 0 /\ MatchedAt(Len(cLog))
           THEN cResult = detectOn(cSide, cLog[Len(cLog)], cIp, cResponses[Len(cLog)])
           ELSE cResult = Null /\ Len(cLog) = 10
    /\ (cpc = "done" /\ cSide = "backend") => cResult = scanIp(cIp, ResponseOf)

\* scanIpFallback returned the Tuya device after WiZ, Hue, Syska and Tasmota
\* had not matched
C6_Witness ==
    /\ cpc = "done"
    /\ cSide = "client"
    /\ cLog = <<"wiz", "hue", "syska", "tasmota", "tuya">>
    /\ cResult # Null
    /\ cResult[1].protocol = "tuya"

(***************************************************************************)
(* Claims about DeviceCacheService, checked under SpecCache                 *)
(***************************************************************************)
AgeOf(entry, t) == t - entry.cachedAt

\* C7: after cacheDevices at time T (putAt), with no later cacheDevices or
\* clearCache, hasRecentScan(maxAgeMs) answers true at every time t with
\* t - T < maxAgeMs and false at every time with t - T > maxAgeMs.
C7_RecentScanWindow ==
    (cacheCall.op = "hasRecentScan" /\ putAt >= 0) =>
        /\ (now - putAt < cacheCall.arg) => (cacheCall.ret = TRUE)
        /\ (now - putAt > cacheCall.arg) => (cacheCall.ret = FALSE)

\* hasRecentScan(5 min) answered false 6 minutes after a cacheDevices of a device
C7_Witness ==
    /\ cacheCall.op = "hasRecentScan"
    /\ cacheCall.arg = RECENT_SCAN_MS
    /\ putAt >= 0
    /\ now - putAt = 6 * MinuteMs
    /\ Len(deviceCache) > 0
    /\ cacheCall.ret = FALSE

\* C8: getAllDevices returns exactly the cached devices whose age does not
\* exceed the 1-hour retention window (one per such entry, without cachedAt),
\* and no expired entry is left in the map when it returns.
C8_GetAllExactlyLive ==
    [][ (cacheCall'.op = "getAllDevices") =>
          LET fresh == {i \in 1..Len(deviceCache) :
                            AgeOf(deviceCache[i].val, now) <= CACHE_EXPIRY}
          IN  /\ Len(cacheCall'.ret) = Cardinality(fresh)
              /\ Range(cacheCall'.ret) =
                    {stripCacheMetadata(deviceCache[i].val) : i \in fresh}
              /\ \A j \in 1..Len(deviceCache') :
                    AgeOf(deviceCache'[j].val, now') <= CACHE_EXPIRY
      ]_vars

\* getAllDevices returned one device and evicted another, expired one
C8_Witness ==
    /\ cacheCall.op = "getAllDevices"
    /\ Len(cacheCall.ret) = 1
    /\ Len(deviceCache) = 1
    /\ storage.has /\ Len(storage.deviceCache) = 2
    /\ \E i \in 1..2 : AgeOf(storage.deviceCache[i], now) > CACHE_EXPIRY

\* C9: updateDeviceState(id, updates) on a cached id changes only the fields
\* named in updates and cachedAt: the entry's other fields, every other entry
\* and the last-scan timestamp are unchanged, and a getAllDevices that follows
\* returns the device with the updated fields.
C9_PatchFrame ==
    [][ /\ (cacheCall'.op = "updateDeviceState" /\ MapHas(deviceCache, cacheCall'.arg)) =>
            LET id  == cacheCall'.arg
                u   == cacheCall'.updates
                pos == CHOOSE i \in 1..Len(deviceCache) : deviceCache[i].key = id
                old == deviceCache[pos].val
            IN  /\ cacheCall'.ret = TRUE
                /\ Len(deviceCache') = Len(deviceCache)
                /\ \A i \in 1..Len(deviceCache) :
                      i # pos => deviceCache'[i] = deviceCache[i]
                /\ deviceCache'[pos].key = id
                /\ DOMAIN deviceCache'[pos].val = (DOMAIN old) \cup (DOMAIN u)
                /\ \A f \in (DOMAIN old) \ ((DOMAIN u) \cup {"cachedAt"}) :
                      deviceCache'[pos].val[f] = old[f]
                /\ \A f \in DOMAIN u : deviceCache'[pos].val[f] = u[f]
                /\ lastScanTimestamp' = lastScanTimestamp
        /\ (cacheCall.op = "updateDeviceState" /\ cacheCall.ret = TRUE
              /\ cacheCall'.op = "getAllDevices") =>
            \E i \in 1..Len(cacheCall'.ret) :
                /\ cacheCall'.ret[i].id = cacheCall.arg
                /\ \A f \in DOMAIN cacheCall.updates :
                      cacheCall'.ret[i][f] = cacheCall.updates[f]
                /\ cacheCall'.ret[i] =
                      stripCacheMetadata(MapGet(deviceCache, cacheCall.arg))
      ]_vars

\* the power state of one of two cached devices was patched, its value kept
C9_Witness ==
    /\ cacheCall.op = "updateDeviceState"
    /\ cacheCall.ret = TRUE
    /\ cacheCall.arg = DevWiz.id
    /\ cacheCall.updates = [state |-> TRUE]
    /\ Len(deviceCache) = 2
    /\ MapGet(deviceCache, DevWiz.id).state = TRUE
    /\ MapGet(deviceCache, DevWiz.id).value = DevWiz.value
    /\ MapGet(deviceCache, DevWiz.id).cachedAt > putAt

\* C10: updateDeviceState for an id that is not in the cache returns false and
\* leaves the cache map and the last-scan timestamp unchanged.
C10_PatchAbsent ==
    [][ (cacheCall'.op = "updateDeviceState" /\ ~MapHas(deviceCache, cacheCall'.arg)) =>
            /\ cacheCall'.ret = FALSE
            /\ deviceCache' = deviceCache
            /\ lastScanTimestamp' = lastScanTimestamp
      ]_vars

\* updateDeviceState returned false for an id absent from a non-empty cache
C10_Witness ==
    /\ cacheCall.op = "updateDeviceState"
    /\ cacheCall.ret = FALSE
    /\ Len(deviceCache) = 1
    /\ ~MapHas(deviceCache, cacheCall.arg)

\* C11 as stated: from clearCache until the next cacheDevices, getAllDevices
\* returns the empty list, getDevice returns null for every id and
\* hasRecentScan(5 min) returns false.
C11_EmptyUntilCacheDevices ==
    sinceClear # "none" =>
        /\ cacheCall.op = "getAllDevices" => cacheCall.ret = << >>
        /\ cacheCall.op = "getDevice" => cacheCall.ret = {}
        /\ (cacheCall.op = "hasRecentScan" /\ cacheCall.arg = RECENT_SCAN_MS)
               => cacheCall.ret = FALSE

\* C11, amended: clearCache leaves an empty map and lastScanTimestamp = 0;
\* from then until the next cacheDevice or cacheDevices, getAllDevices returns
\* the empty list and getDevice returns null for every id; and until the next
\* cacheDevices, hasRecentScan(5 min) returns false.
C11_EmptyUntilNextWrite ==
    /\ [][cacheCall'.op = "clearCache" /\ cacheCall' # cacheCall
             => deviceCache' = << >> /\ lastScanTimestamp' = 0]_vars
    /\ [](sinceClear = "cleared" =>
             /\ deviceCache = << >>
             /\ cacheCall.op = "getAllDevices" => cacheCall.ret = << >>
             /\ cacheCall.op = "getDevice" => cacheCall.ret = {})
    /\ [](sinceClear # "none" =>
             ((cacheCall.op = "hasRecentScan" /\ cacheCall.arg = RECENT_SCAN_MS)
                  => cacheCall.ret = FALSE))

\* hasRecentScan(5 min) answered false after a cache that had been filled less
\* than five minutes earlier was cleared
C11_Witness ==
    /\ sinceClear = "cleared"
    /\ storage = NoItems
    /\ cacheCall.op = "hasRecentScan"
    /\ cacheCall.arg = RECENT_SCAN_MS
    /\ cacheCall.ret = FALSE
    /\ tick = 1

\* C12: cacheDevices(list) leaves, for every device of the list, one entry
\* under its id holding the device with cachedAt = now; the entries of the
\* other ids are as before, no other id appears; lastScanTimestamp is now,
\* for the empty list too.
C12_CacheDevicesUpserts ==
    [][(cacheCall'.op = "cacheDevices") =>
          LET devices == cacheCall'.arg
              listed == {devices[i].id : i \in 1..Len(devices)}
          IN  /\ \A i \in 1..Len(devices) :
                     /\ Cardinality({j \in 1..Len(deviceCache') :
                                         deviceCache'[j].key = devices[i].id}) = 1
                     /\ MapGet(deviceCache', devices[i].id)
                            = Spread(devices[i], [cachedAt |-> now])
              /\ \A j \in 1..Len(deviceCache') :
                     deviceCache'[j].key \notin listed =>
                         /\ MapHas(deviceCache, deviceCache'[j].key)
                         /\ MapGet(deviceCache, deviceCache'[j].key) = deviceCache'[j].val
              /\ \A j \in 1..Len(deviceCache) :
                     deviceCache[j].key \notin listed => MapHas(deviceCache', deviceCache[j].key)
              /\ lastScanTimestamp' = now
    ]_vars

\* cacheDevices replaced the entry of one id and left an older entry of
\* another id as it was
C12_Witness ==
    /\ cacheCall.op = "cacheDevices"
    /\ cacheCall.arg = <<DevWizOn>>
    /\ MapHas(deviceCache, DevFan.id)
    /\ MapGet(deviceCache, DevFan.id).cachedAt < now
    /\ MapGet(deviceCache, DevWiz.id) = Spread(DevWizOn, [cachedAt |-> now])
    /\ lastScanTimestamp = now

(***************************************************************************)
(* Claims about the client discoverDevices(), checked under SpecDiscover   *)
(***************************************************************************)
\* C13: when discoverDevices() is called less than five minutes after the
\* last cacheDevices and the cache holds a non-expired device, the call ends
\* in that step returning the non-expired cached devices: no scan-network
\* request, no browser discovery, and nothing stored (lastScanTimestamp,
\* localStorage and the non-expired entries are as before).
C13_FreshCacheShortCircuit ==
    [][( /\ dpc \in {"idle", "done"}
         /\ cacheCall'.op \in {"getAllDevices", "hasRecentScan"}
         /\ putAt # -1
         /\ now - putAt < 5 * MinuteMs
         /\ Len(liveDevices(deviceCache, now)) > 0 )
       => /\ dpc' = "done"
          /\ dResult' = Returned(liveDevices(deviceCache, now))
          /\ dRequests' = 0
          /\ dProbed' = FALSE
          /\ lastScanTimestamp' = lastScanTimestamp
          /\ storage' = storage
          /\ deviceCache' = evictExpired(deviceCache, now)
    ]_vars

\* a call answered from the cache four minutes after the last cacheDevices
C13_Witness ==
    /\ dpc = "done"
    /\ cacheCall.op = "getAllDevices"
    /\ dRequests = 0
    /\ ~dProbed
    /\ dResult.kind = "returned"
    /\ Len(dResult.result) > 0
    /\ now - putAt = 4 * MinuteMs

\* C14: a call that scanned and returned holds, in the list it returns, every
\* device its scan produced and every device that was cached and not expired
\* when the call began, unless the scan produced a device with the same id.
C14_ScanResultMerged ==
    (dpc = "done" /\ dResult.kind = "returned" /\ (dRequests > 0 \/ dProbed)
        /\ cacheCall.op = "cacheDevices")
    => /\ \A k \in 1..Len(dNew) : dNew[k] \in Range(dResult.result)
       /\ \A k \in 1..Len(dBefore) :
              \/ dBefore[k] \in Range(dResult.result)
              \/ \E n \in 1..Len(dNew) : dNew[n].id = dBefore[k].id

\* C17: a call whose scan-network request failed on every attempt goes on
\* to the browser-compatible discovery; when that discovery throws, the call
\* returns the non-expired cached devices if there are any; the call raises
\* only when the discovery threw and no cached device is left.
C17_FallbackThenCache ==
    /\ "backend" \in dFailed => (dpc \in {"fallback", "done"} /\ (dpc = "done" => dProbed))
    /\ (dpc = "done" /\ "fallback" \in dFailed /\ cacheCall.op = "getAllDevices")
          => IF Len(liveDevices(deviceCache, now)) > 0
             THEN dResult = Returned(liveDevices(deviceCache, now))
             ELSE dResult.kind = "raised"
    /\ dResult.kind = "raised" => "fallback" \in dFailed
    /\ dpc = "done" => dResult.kind # "pending"

\* the scan-network request failed three times, the browser discovery threw
\* while storing, and the call returned the cached devices
C17_Witness ==
    /\ dpc = "done"
    /\ dFailed = {"backend", "fallback"}
    /\ dRequests = SCAN_RETRIES + 1
    /\ cacheCall.op = "getAllDevices"
    /\ dResult.kind = "returned"
    /\ Len(dResult.result) > 0

(***************************************************************************)
(* Claims about toggleDevice / updateDeviceState, checked under            *)
(* SpecControl, and about the handlers' getState, under SpecHandlers       *)
(***************************************************************************)
\* the POST /device/control calls of the current control call, in order
BackendCalls == SelectSeq(kCalls, LAMBDA e : e.to = "backend")

\* the calls of the direct handler, in order
HandlerCalls == SelectSeq(kCalls, LAMBDA e : e.to = "handler")

\* C15 as stated: a control action invokes its backend call at most
\* MAX_RETRIES = 3 times in total.
C15_AtMostThreeBackendCalls == Len(BackendCalls) <= MAX_RETRIES

\* C15, amended: a control action invokes its backend call at most
\* MAX_RETRIES + 1 = 4 times; it gives up on the backend after exactly four
\* failed calls; each call but the first directly follows one delay of
\* RETRY_DELAY ms, which directly follows a failed call.
C15_AtMostFourBackendCalls ==
    /\ Len(BackendCalls) <= MAX_RETRIES + 1
    /\ "backend" \in kFailed =>
           /\ Len(BackendCalls) = MAX_RETRIES + 1
           /\ \A i \in 1..Len(BackendCalls) : ~BackendCalls[i].served
    /\ \A i \in 1..Len(kCalls) :
           /\ (kCalls[i].to = "backend" /\ i > 1) =>
                  (kCalls[i - 1].to = "timer" /\ kCalls[i - 1].ms = RETRY_DELAY)
           /\ kCalls[i].to = "timer" =>
                  (i > 1 /\ kCalls[i - 1].to = "backend" /\ ~kCalls[i - 1].served)

\* the backend call failed four times and the control went on to the handler
C15_Witness ==
    /\ "backend" \in kFailed
    /\ Len(BackendCalls) = MAX_RETRIES + 1
    /\ Len(HandlerCalls) > 0

\* C16: a control call whose backend calls all failed invokes the direct
\* handler before it ends; and the direct handler is invoked only after the
\* backend attempts are used up, none of them having been answered.
C16_DirectOnlyAfterExhaustion ==
    /\ (kpc = "done" /\ "backend" \in kFailed) => Len(HandlerCalls) > 0
    /\ Len(HandlerCalls) > 0 =>
           /\ "backend" \in kFailed
           /\ \A i \in 1..Len(BackendCalls) : ~BackendCalls[i].served
           /\ \A i, j \in 1..Len(kCalls) :
                  (kCalls[i].to = "backend" /\ kCalls[j].to = "handler") => i < j

\* C18: a control request for a device with an unknown protocol tag is not
\* failed because of the tag: on the relay, a request the backend received
\* for a device ready to answer succeeds; on the direct path the handler
\* getProtocolHandler returns is called.
C18_UnknownTagDispatched ==
    (kReq.fn # "none" /\ Field(kReq.device, "protocol", "") \notin KnownTags \cup {""}) =>
        /\ \A i \in 1..Len(BackendCalls) :
               BackendCalls[i].accepted => BackendCalls[i].success
        /\ (kpc = "done" /\ "backend" \in kFailed) => Len(HandlerCalls) > 0

\* C19: getState of the handler getProtocolHandler returns for a tag, known
\* or not, never raises and returns an object with a boolean state; when the
\* read it makes fails, state is false.
C19_GetStateNeverRaises ==
    hState.protocol # "none" =>
        /\ ~hState.result.raised
        /\ "state" \in DOMAIN hState.result.value
        /\ hState.result.value.state \in BOOLEAN
        /\ ~hState.reply.ok => hState.result.value.state = FALSE

\* the read of the Havells handler failed and getState returned { state: false }
C19_Witness ==
    /\ hState.protocol = "havells"
    /\ ~hState.reply.ok
    /\ hState.result = [raised |-> FALSE, value |-> [state |-> FALSE]]

\* C20: toggleDevice and updateDeviceState never raise; a call that ended
\* resolved to a boolean, and to false unless the backend answered success
\* or every call of the direct handler returned true.
C20_ControlNeverRaises ==
    /\ kResult.kind # "raised"
    /\ kpc = "done" =>
           /\ kResult.kind = "resolved"
           /\ kResult.value \in BOOLEAN
           /\ kResult.value =>
                  \/ \E i \in 1..Len(BackendCalls) : BackendCalls[i].success
                  \/ /\ Len(HandlerCalls) > 0
                     /\ \A i \in 1..Len(HandlerCalls) : HandlerCalls[i].success

\* the backend call failed four times, the handler switched the device and
\* the cache update threw: the call resolved to false
C20_Witness ==
    /\ kpc = "done"
    /\ kFailed = {"backend", "direct-store"}
    /\ Len(BackendCalls) = MAX_RETRIES + 1
    /\ kResult = [kind |-> "resolved", value |-> FALSE]

(***************************************************************************)
(* Claims about the backend's POST /api/device/control, checked under      *)
(* SpecHandlers                                                            *)
(***************************************************************************)
\* the request served last lacks deviceIp, protocol or action
MissingParameter ==
    \/ Field(rCall.body, "deviceIp", << >>) = << >>
    \/ Field(rCall.body, "protocol", "") = ""
    \/ Field(rCall.body, "action", "") = ""

\* C21: the backend controlDevice never raises: a request with deviceIp,
\* protocol and action is always answered with controlDevice's result (never
\* with the route's 500), and that result is { success: false, error: message }
\* whenever no command was sent or the device did not accept it; a request
\* with one of the three missing is answered with an error without
\* controlDevice being called or a command being sent.
C21_ControlRouteAnswers ==
    rCall.status # 0 =>
        IF MissingParameter
        THEN /\ rCall.status = 400
             /\ DOMAIN rCall.json = {"error"}
             /\ ~rCall.called /\ ~rCall.sent
        ELSE /\ rCall.status = 200
             /\ rCall.called
             /\ IF rCall.sent /\ rCall.reply.ok
                THEN rCall.json = [success |-> TRUE, data |-> rCall.reply.data]
                ELSE /\ DOMAIN rCall.json = {"success", "error"}
                     /\ rCall.json.success = FALSE
                     /\ rCall.json.error # << >>

\* a command was sent and the device rejected it
C21_Witness ==
    /\ rCall.status = 200
    /\ rCall.sent
    /\ rCall.reply = [ok |-> FALSE, status |-> 500, data |-> NoData]
    /\ rCall.json.success = FALSE

(***************************************************************************)
(* More claims about the backend discoverDevices(), checked under          *)
(* SpecBackend                                                             *)
(***************************************************************************)
\* C22: when the interface lookup fails, with an error or with no interface,
\* getNetworkInfo yields the defaults 192.168.1.2 / 255.255.255.0 /
\* 192.168.1.1 and discoverDevices goes on to scan with them: the step that
\* takes the lookup's answer always enters the scan loop, and a lookup that
\* failed leaves networkInfo at the defaults.
C22_DefaultsOnFailure ==
    [][(bpc = "netinfo" /\ bpc' # "netinfo") =>
           /\ bpc' = "scan"
           /\ "netinfo" \in bFailed' => networkInfo' = defaultResult]_vars

\* C26: at most 10 scanIp calls are in flight at any time, and no scanIp of a
\* later batch is started before every scanIp of the previous batch has
\* completed. A scanIp call is in flight from its push onto scanPromises
\* until the await that settles the array: whenever the loop is between two
\* iterations fewer than 10 are pending, the iteration that pushes the tenth
\* awaits all ten and collects their results before the next address is
\* looked at, and the scanIp after it starts on an empty array.
C26_BatchesOfTen ==
    /\ [](Len(scanPromises) < BATCH_SIZE)
    /\ [][scanned' # scanned =>
             IF Len(scanPromises) + 1 = BATCH_SIZE
             THEN /\ scanPromises' = << >>
                  /\ \E settled \in UNION {Lan(ip).responses : ip \in scanned' \ scanned} :
                         bDevices' = pushResults(bDevices,
                                                 Append(scanPromises,
                                                        scanIp(fromLong(scanI), settled)))
             ELSE /\ Len(scanPromises') = Len(scanPromises) + 1
                  /\ SubSeq(scanPromises', 1, Len(scanPromises)) = scanPromises
                  /\ bDevices' = bDevices]_vars

\* a batch of ten was awaited and the first scanIp of the next batch is pending
C26_Witness ==
    /\ Cardinality(scanned) = BATCH_SIZE + 1
    /\ Len(scanPromises) = 1
    /\ bpc = "scan"

\* C27: an address whose reachability check reports not reachable, or fails
\* (the ping command times out or errors), is never passed to scanIp, and
\* pingIp never raises: every address the loop pinged was either refused or
\* scanned, never both, and a refused ping neither ends the pass nor changes
\* what it will return.
C27_UnreachableNeverScanned ==
    /\ [](scanned \cap pingFailed = {})
    /\ [](pinged = scanned \cup pingFailed)
    /\ [][pingFailed' # pingFailed =>
             /\ bpc' = "scan"
             /\ UNCHANGED <<bOutcome, bDevices, scanPromises>>]_vars

\* a pass that met a ping command that failed, an address that gave no reply
\* and an address that answered, and returned
C27_Witness ==
    /\ bOutcome.kind = "returned"
    /\ "ping" \in bFailed
    /\ scanned # {}
    /\ \E ip \in pingFailed : Lan(ip).pings = {"noreply"}

\* C28: discoverWithMdns always completes. Once its listener runs the promise
\* resolves when the 3 s timer fires, after no announcement or after several;
\* it resolves once, with the devices collected in the window, and the window
\* is not opened again in the pass; every device collected has an IPv4
\* address, announcements without one being skipped. Checked under
\* SpecBackendLive.
C28_MdnsCompletes ==
    /\ (bpc = "mdns") ~> (bpc = "netinfo")
    /\ [][(bpc = "mdns" /\ bpc' # "mdns") =>
             /\ bpc' = "netinfo"
             /\ mdnsDevices' = mdnsDevices
             /\ bDevices' = bDevices \o mdnsDevices]_vars
    /\ [][bpc \notin {"idle", "mdns"} => bpc' # "mdns"]_vars
    /\ [](\A i \in 1..Len(mdnsDevices) : Len(mdnsDevices[i].ip) = 4)
    /\ [](Len(mdnsDevices) <= announced)

\* the window closed after two announcements, one of them without an IPv4
\* address
C28_Witness ==
    /\ bpc = "netinfo"
    /\ Len(mdnsDevices) = 1
    /\ announced > Len(mdnsDevices)

\* C29: in discoverDevices passive listening runs concurrently with active
\* scanning, the active scan starting before the announcement window has
\* closed: the interface lookup takes milliseconds and the window 3 s, so when
\* the window closes the active stage has its network info and has entered
\* its loop.
C29_ScanStartsInsideWindow ==
    [][(bpc = "mdns" /\ bpc' # "mdns") =>
           /\ networkInfo.localIp # << >>
           /\ ipRange.start # << >>]_vars

(***************************************************************************)
(* More claims about scanIp / scanIpFallback, checked under SpecClassify   *)
(***************************************************************************)
\* the requests of the probe all failed: the request threw, or, for the
\* backend's Tuya probe, the ping failed or every port request threw
Errored(resp) == ~resp.ok \/ (resp.ports # << >> /\ \A k \in 1..Len(resp.ports) : resp.ports[k] # "ok")

\* C30: a vendor probe whose request errors reports no match and the error
\* goes no further: the classification continues with the next probe in
\* order, and ends with null only after the tenth probe.
C30_ErroredProbeIsNoMatch ==
    \A i \in 1..Len(cLog) :
        Errored(cResponses[i]) =>
            /\ ~MatchedAt(i)
            /\ i < Len(cLog) => cLog[i + 1] = orderOf(cSide)[i + 1]
            /\ i = Len(cLog) =>
                   IF i < Len(orderOf(cSide))
                   THEN cpc = "probing" /\ cPos = i + 1 /\ cResult = Null
                   ELSE \/ cpc = "probing" /\ cPos = i + 1
                        \/ cpc = "done" /\ cResult = Null

\* the WiZ request timed out, the Hue request was refused, and the Syska
\* probe matched
C30_Witness ==
    /\ cpc = "done"
    /\ cSide = "backend"
    /\ Len(cLog) = 3
    /\ Errored(cResponses[1]) /\ Errored(cResponses[2])
    /\ cResult # Null
    /\ cResult[1].protocol = "syska"

\* the Device records the system can produce for an address: by a probe of
\* the backend or of the client, by a service announcement the backend hears,
\* and by the client's discoverWithMdnsFallback
ProducedAt(ipAddress) ==
    LET Probed(side) ==
            UNION {{detectOn(side, p, ipAddress, r)[1] :
                        r \in {a \in ProbeAnswers(side, p) :
                                   detectOn(side, p, ipAddress, a) # Null}} : p \in Probes}
        Announced == UNION {Range(mdnsUp(<< >>, service)) : service \in MdnsServices}
    IN  {d \in Probed("backend") \cup Probed("client") \cup Announced \cup Range(MockDevices) :
             d.ip = ipAddress}

\* C23: two Device records produced for the same protocol and address have
\* the same id, whichever of passive discovery, a backend probe and a client
\* fallback probe produced them: the record a classification returns has the
\* id of every other record that can be produced for its protocol and address.
C23_OneIdPerDevice ==
    cResult # Null =>
        \A d \in ProducedAt(cIp) : d.protocol = cResult[1].protocol => d.id = cResult[1].id

(***************************************************************************)
(* More claims about toggleDevice / updateDeviceState, checked under       *)
(* SpecControl                                                             *)
(***************************************************************************)
\* the call in progress or finished was made for a device without a protocol
NoProtocol(req) == req.fn # "none" /\ Field(req.device, "protocol", "") = ""

\* C24: toggleDevice / updateDeviceState on a device with no protocol returns
\* false without a backend request, without a handler call and without
\* changing the cache, its timestamp or localStorage.
C24_NoProtocolNoEffect ==
    /\ [](NoProtocol(kReq) =>
              /\ kpc = "done"
              /\ kResult = [kind |-> "resolved", value |-> FALSE]
              /\ kCalls = << >>)
    /\ [][NoProtocol(kReq') => UNCHANGED <<deviceCache, lastScanTimestamp, storage>>]_vars

\* updateDeviceState was called for the fan without a protocol while the
\* cache held devices
C24_Witness ==
    /\ NoProtocol(kReq)
    /\ kReq.fn = "updateDeviceState"
    /\ kpc = "done"
    /\ Len(deviceCache) > 0

\* C25: toggleDevice / updateDeviceState change the cache (the map or its
\* stored copy) only in a step whose control action reported success, the
\* backend's answer or the direct handler's calls, and then only the entry of
\* the device; a step whose action failed leaves the cache as it was.
C25_CacheOnlyAfterSuccess ==
    [][(kpc \in {"backend", "direct"}
            /\ <<deviceCache, lastScanTimestamp, storage>>'
                    # <<deviceCache, lastScanTimestamp, storage>>) =>
           /\ Len(kCalls') = Len(kCalls) + 1
           /\ kCalls'[Len(kCalls')].success
           /\ kCalls'[Len(kCalls')].to = "handler" => kSuccess'
           /\ lastScanTimestamp' = lastScanTimestamp
           /\ Len(deviceCache') = Len(deviceCache)
           /\ \A i \in 1..Len(deviceCache) :
                  deviceCache[i].key # kReq.device.id => deviceCache'[i] = deviceCache[i]]_vars

\* the backend failed four times and the handler's command was not accepted,
\* for a device the cache holds
C25_Witness ==
    /\ kpc = "done"
    /\ kReq.fn # "none"
    /\ MapHas(deviceCache, kReq.device.id)
    /\ Len(BackendCalls) = MAX_RETRIES + 1
    /\ Len(HandlerCalls) = 1
    /\ \A i \in 1..Len(kCalls) : ~kCalls[i].success
    /\ kResult = [kind |-> "resolved", value |-> FALSE]

\* C31: an address that answers the Tasmota probe with Status.FriendlyName = N
\* and Status.DeviceName = M, and matched no earlier probe, is classified with
\* protocol tasmota, name N and the type the keywords of M give (fan for "Fan
\* Module"), and scanIp and scanIpFallback give the same protocol, type and
\* name for it.
C31_TasmotaByStatus ==
    (/\ cpc = "done"
     /\ cResult # Null
     /\ cLog[Len(cLog)] = "tasmota"
     /\ {"FriendlyName", "DeviceName"} \subseteq DOMAIN cResponses[Len(cLog)].data.Status) =>
        LET status == cResponses[Len(cLog)].data.Status
            Same(d, e) == d.protocol = e.protocol /\ d.type = e.type /\ d.name = e.name
        IN  /\ cResult[1].protocol = "tasmota"
            /\ cResult[1].name = status.FriendlyName
            /\ cResult[1].type = detectDeviceType(status.DeviceName)
            /\ status.DeviceName = Text.FanModule => cResult[1].type = "fan"
            /\ \A side \in {"backend", "client"} :
                   Same(cResult[1], detectOn(side, "tasmota", cIp, cResponses[Len(cLog)])[1])

\* a second run of the classifier of cSide on cIp, for a mapping from probe
\* to response that gives the probes of the finished run the responses they
\* got, and every other probe a failure (fill = "failed") or the body of a
\* device of its make (fill = "matching")
Rerun(fill) ==
    LET order == orderOf(cSide)
        mapping ==
            [p \in Probes |->
                IF p \in Range(cLog) THEN ResponseOf[p]
                ELSE IF fill = "failed" THEN Failed
                ELSE CHOOSE a \in ProbeAnswers(cSide, p) : detectOn(cSide, p, cIp, a) # Null]
        F[i \in 1..(Len(order) + 1)] ==
            IF i > Len(order) THEN Null
            ELSE LET d == detectOn(cSide, order[i], cIp, mapping[order[i]])
                 IN  IF d # Null THEN d ELSE F[i + 1]
    IN  F[1]

\* C32: classification is deterministic: for a fixed mapping from (address,
\* endpoint) to response, a second run on the same address yields no device
\* when the first yielded none, and otherwise a device of the same protocol
\* and type.
C32_Deterministic ==
    cpc = "done" =>
        \A fill \in {"failed", "matching"} :
            IF cResult = Null THEN Rerun(fill) = Null
            ELSE /\ Rerun(fill) # Null
                 /\ Rerun(fill)[1].protocol = cResult[1].protocol
                 /\ Rerun(fill)[1].type = cResult[1].type

\* the client's run ended at the Hue probe, with eight probes never sent
C32_Witness ==
    /\ cpc = "done"
    /\ cSide = "client"
    /\ cLog = <<"wiz", "hue">>
    /\ cResult # Null
    /\ cResult[1].protocol = "philips-hue"

(***************************************************************************)
(* Claims about the commands built for a device, checked under             *)
(* SpecSetProperty                                                         *)
(***************************************************************************)
\* the number a command carries for the brightness, None if it carries none
BrightnessIn(data) ==
    IF "brightness" \in DOMAIN data THEN data.brightness
    ELSE IF "bri" \in DOMAIN data THEN data.bri
    ELSE IF "cmnd" \in DOMAIN data THEN data.cmnd[2]
    ELSE 0 - 1

\* the brightness controlDevice posts for the protocol when asked for `value`
RelayBrightness(protocol, value) ==
    BrightnessIn(controlRequest(<<192, 168, 1, 10>>, MkId(protocol, <<192, 168, 1, 10>>),
                                protocol, "setBrightness",
                                [value |-> value, username |-> "bridge-user"]).data)

\* the command carries `sent` for the requested `value` under the policy
Treats(policy, value, sent) ==
    IF policy = "unchanged" THEN sent = value
    ELSE sent = (IF value < 1 THEN 1 ELSE IF value > 100 THEN 100 ELSE value)

Returnable(m, deviceId, t) ==
    MapHas(m, deviceId) /\ ~isExpired(MapGet(m, deviceId).cachedAt, t)

\* C34: once the age of an entry has exceeded the retention window, no later
\* getDevice or getAllDevices returns it unless cacheDevice / cacheDevices
\* inserts it again: an entry that is in the map and expired becomes one the
\* reads return only in a step of cacheDevice or cacheDevices, and not in a
\* step of updateDeviceState.
C34_ExpiredUntilInserted ==
    [][\A id \in DeviceIds :
           (/\ MapHas(deviceCache, id)
            /\ isExpired(MapGet(deviceCache, id).cachedAt, now)
            /\ Returnable(deviceCache', id, now')) =>
               cacheCall'.op \in {"cacheDevice", "cacheDevices"}]_vars

(***************************************************************************)
(* More claims about the client discoverDevices(), under SpecDiscover      *)
(***************************************************************************)
\* C35: after toggleDevice(d, s) has returned true the cached state of d is s
\* until the next control action on d or a scan started after the toggle; a
\* scan already in flight does not overwrite it.  The cache patch is the last
\* act of a toggle that returns true: when it has just been made while
\* discoverDevices() is waiting for its request or its fallback, the next
\* step leaves the entry of d with the state that was set.
C35_InFlightScanKeepsToggle ==
    [][( /\ cacheCall.op = "updateDeviceState"
         /\ cacheCall.ret
         /\ dpc \in {"request", "fallback"} )
       => /\ MapHas(deviceCache', cacheCall.arg)
          /\ MapGet(deviceCache', cacheCall.arg).state = TRUE
    ]_vars

\* C36: the list a call of discoverDevices() returns never holds two devices
\* with the same ip or the same id, whether it came from the fresh cache, from
\* the backend, or from the fallback merged with the cached devices.
C36_ReturnedListUnique ==
    (dpc = "done" /\ dResult.kind = "returned")
    => \A i, j \in 1..Len(dResult.result) :
           i # j => /\ dResult.result[i].ip # dResult.result[j].ip
                    /\ dResult.result[i].id # dResult.result[j].id

(***************************************************************************)
(* More claims about toggleDevice / updateDeviceState, under SpecControl   *)
(***************************************************************************)
\* what controlDevice posts to the device for the current control call
RelayedRequest ==
    controlRequest(kReq.device.ip, kReq.device.id, kReq.device.protocol, kReq.action,
                   kReq.params)

\* C37: the backend controlDevice reports success only if the POST it sent
\* carried the requested state or value: whenever a POST /device/control of
\* the current call was answered { success: true }, the body controlDevice
\* posted to the device is not the empty object its branch starts with, so
\* every cache patch that follows a reported success is of a value sent.
C37_SuccessMeansSent ==
    \A i \in 1..Len(kCalls) :
        (kCalls[i].to = "backend" /\ kCalls[i].success)
            => (RelayedRequest.supported /\ RelayedRequest.data # NoData)

\* C39: with the backend unavailable a toggle of a philips-hue device can
\* succeed through the direct path: whenever such a toggle has fallen back to
\* the handler of getProtocolHandler('philips-hue'), there is an answer of the
\* device for which the handler's setState returns true.
C39_HueDirectCanSucceed ==
    (kpc = "direct" /\ kReq.fn = "toggleDevice" /\ kReq.device.protocol = "philips-hue")
    => \E reply \in ControlInputs.replies :
           setState(getProtocolHandler(kReq.device.protocol), reply)

(***************************************************************************)
(* Claims about retryOperation, checked under SpecRetryLive                *)
(***************************************************************************)
\* the invocations of the operation that threw
Thrown(log) == {i \in 1..Len(log) : log[i].threw}

\* C38: retryOperation(op, n, delay) invokes op at most n + 1 times; it
\* returns the result of the first invocation that succeeds, which is then
\* the last one; it rethrows only after invocation n + 1 failed; it goes on
\* to another invocation only after a thrown error, a returned false being
\* returned like any value; and every call started comes to an end.
C38_RetryOperation ==
    /\ [](Len(retry.log) <= retry.given + 1)
    /\ [](\A i \in 1..Len(retry.log) : i < Len(retry.log) => retry.log[i].threw)
    /\ [](retry.result.kind = "returned" =>
             /\ retry.pc = "done"
             /\ Thrown(retry.log) = 1..(Len(retry.log) - 1)
             /\ retry.result.value = retry.log[Len(retry.log)].value)
    /\ [](retry.result.kind = "raised" =>
             /\ retry.pc = "done"
             /\ Len(retry.log) = retry.given + 1
             /\ Thrown(retry.log) = 1..Len(retry.log)
             /\ retry.result.message = retry.log[Len(retry.log)].message)
    /\ [](retry.waited = retry.delay * (retry.given - retry.retries))
    /\ (retry.pc \in {"call", "wait"} ~> retry.pc = "done")

\* a call with three retries whose operation threw twice and then returned false
C38_Witness ==
    /\ retry.pc = "done"
    /\ retry.given = 3
    /\ Len(retry.log) = 3
    /\ retry.result = [kind |-> "returned", value |-> FALSE]

(***************************************************************************)
(* Claims about LocalDevicesTab, checked under SpecTab                     *)
(***************************************************************************)
\* C40: at most one discoverDevices() call started by loadDevices is in
\* flight at any time; and when the call of the mounted instance settles,
\* with a list or with an error, scanInProgress and isLoading are false
\* again, so that the button starts a new scan.
C40_OneScanInFlight ==
    /\ [](Len(tab.calls) <= 1)
    /\ [][(/\ tab.mounted
           /\ tab.instance \in Range(tab.calls)
           /\ tab'.mounted
           /\ tab'.instance \notin Range(tab'.calls))
          => /\ ~tab'.scanInProgress
             /\ ~tab'.isLoading]_vars

====
